---- MODULE Spec2Model ----
(***************************************************************************)
(* Model of the usta-action task orchestrator (src/src/run-usta.ts), its   *)
(* checklist parser (src/src/spec/utils.ts), the git gateway               *)
(* (git-utils.ts) and the progress reporter (CommentManager).              *)
(*                                                                         *)
(* Text is modelled as sequences of one-character strings, a document as   *)
(* the sequence of its lines (content.split("\n")).                        *)
(***************************************************************************)
EXTENDS Integers, Sequences, FiniteSets, TLC

\* ------------------------------------------------------------------------
\* Text helpers (JavaScript String methods used by the source)
\* ------------------------------------------------------------------------

Whitespace == {" "}

Digits == {"0", "1", "2", "3"}

\* String.prototype.startsWith
StartsWith(s, p) ==
  /\ Len(s) >= Len(p)
  /\ SubSeq(s, 1, Len(p)) = p

\* String.prototype.includes
Includes(s, t) ==
  \E i \in 1..(Len(s) + 1) :
    /\ i + Len(t) - 1 <= Len(s)
    /\ SubSeq(s, i, i + Len(t) - 1) = t

\* index of the first element of s, at or after position from, that is in set
\* chars; Len(s) + 1 if there is none
RECURSIVE IndexOfAny(_, _, _)
IndexOfAny(s, chars, from) ==
  IF from > Len(s) THEN Len(s) + 1
  ELSE IF s[from] \in chars THEN from
  ELSE IndexOfAny(s, chars, from + 1)

\* index of the first element at or after from that is NOT in chars
RECURSIVE IndexOfNot(_, _, _)
IndexOfNot(s, chars, from) ==
  IF from > Len(s) THEN Len(s) + 1
  ELSE IF s[from] \notin chars THEN from
  ELSE IndexOfNot(s, chars, from + 1)

\* index of the last element that is not in chars; 0 if there is none
RECURSIVE LastIndexOfNot(_, _, _)
LastIndexOfNot(s, chars, from) ==
  IF from < 1 THEN 0
  ELSE IF s[from] \notin chars THEN from
  ELSE LastIndexOfNot(s, chars, from - 1)

\* String.prototype.trim
Trim(s) ==
  SubSeq(s, IndexOfNot(s, Whitespace, 1), LastIndexOfNot(s, Whitespace, Len(s)))

\* index of the last element of s, at or before position from, that is in
\* set chars; 0 if there is none
RECURSIVE LastIndexOfAny(_, _, _)
LastIndexOfAny(s, chars, from) ==
  IF from < 1 THEN 0
  ELSE IF s[from] \in chars THEN from
  ELSE LastIndexOfAny(s, chars, from - 1)

\* String.prototype.endsWith
EndsWith(s, p) ==
  /\ Len(s) >= Len(p)
  /\ SubSeq(s, Len(s) - Len(p) + 1, Len(s)) = p

\* String.prototype.toLowerCase, for one character of the alphabet in use
LowerChar(c) ==
  CASE c = "A" -> "a" [] c = "U" -> "u" [] c = "T" -> "t" [] c = "H" -> "h"
    [] c = "M" -> "m" [] c = "D" -> "d" [] OTHER -> c

\* String.prototype.toLowerCase
toLowerCase(s) == [i \in 1..Len(s) |-> LowerChar(s[i])]

\* s.split(' ')[0]
FirstWord(s) == SubSeq(s, 1, IndexOfAny(s, {" "}, 1) - 1)

\* ------------------------------------------------------------------------
\* Resolution of the specification directory (src/src/spec/utils.ts)
\*
\* The file system is fsys = [root, entries, stat]: root says what readdir of
\* the specs root does ("ok", "ENOENT", "EACCES"), entries is what it lists,
\* in its order, each with whether stat calls it a directory, and stat is what
\* fs.stat says of the path a name with a separator points to ("none" when
\* there is nothing, "dir", "file"); tmp is the set of files written to /tmp,
\* each with its path and its text.
\* ------------------------------------------------------------------------

NoFiles == [root |-> "ENOENT", entries |-> <<>>, stat |-> "none", tmp |-> {}]

NoMatch == [none |-> TRUE]

\* the entries of the specs root that are directories, in readdir order
Directories(entries) ==
  LET IsDir(e) == e.isDir
      dirs == SelectSeq(entries, IsDir) IN
  [i \in 1..Len(dirs) |-> dirs[i].name]

\* Array.prototype.find: the index of the first element that passes, 0 if none
FindIndex(seq, Test(_)) ==
  LET hits == {i \in 1..Len(seq) : Test(seq[i])} IN
  IF hits = {} THEN 0 ELSE CHOOSE i \in hits : \A j \in hits : i <= j

\* the fuzzy test of fuzzyMatchSpec: one name contains the other
FuzzyHit(dir, lowerSearchTerm) ==
  \/ Includes(toLowerCase(dir), lowerSearchTerm)
  \/ Includes(lowerSearchTerm, toLowerCase(dir))

\* a fuzzyMatchSpec that takes the first of several fuzzy matches
fuzzyMatchSpecFirstWins(searchTerm, fs) ==
  LET dirs == Directories(fs.entries)
      lower == toLowerCase(searchTerm)
      IsHit(d) == FuzzyHit(d, lower)
      hits == SelectSeq(dirs, IsHit) IN
  IF fs.root # "ok"
  THEN [threw |-> fs.root # "ENOENT", error |-> fs.root, match |-> NoMatch,
        candidates |-> <<>>]
  ELSE [threw |-> FALSE, error |-> "",
        match |-> IF hits = <<>> THEN NoMatch ELSE hits[1], candidates |-> <<>>]

\* fuzzyMatchSpec(searchTerm, specsDir): match is the directory found, NoMatch
\* for null
fuzzyMatchSpec(searchTerm, fs) ==
  LET dirs == Directories(fs.entries)
      lowerSearchTerm == toLowerCase(searchTerm)
      IsExact(d) == d = searchTerm
      IsSameButCase(d) == toLowerCase(d) = lowerSearchTerm
      IsHit(d) == FuzzyHit(d, lowerSearchTerm)
      fuzzyMatches == SelectSeq(dirs, IsHit) IN
  IF fs.root = "ENOENT"
  THEN [threw |-> FALSE, error |-> "", match |-> NoMatch, candidates |-> <<>>]
  ELSE IF fs.root # "ok"
  THEN [threw |-> TRUE, error |-> fs.root, match |-> NoMatch, candidates |-> <<>>]
  ELSE IF FindIndex(dirs, IsExact) # 0
  THEN [threw |-> FALSE, error |-> "", match |-> dirs[FindIndex(dirs, IsExact)],
        candidates |-> <<>>]
  ELSE IF FindIndex(dirs, IsSameButCase) # 0
  THEN [threw |-> FALSE, error |-> "",
        match |-> dirs[FindIndex(dirs, IsSameButCase)], candidates |-> <<>>]
  ELSE IF Len(fuzzyMatches) = 1
  THEN [threw |-> FALSE, error |-> "", match |-> fuzzyMatches[1],
        candidates |-> <<>>]
  ELSE IF Len(fuzzyMatches) > 1
  THEN [threw |-> TRUE, error |-> "Multiple specs found", match |-> NoMatch,
        candidates |-> fuzzyMatches]
  ELSE [threw |-> FALSE, error |-> "", match |-> NoMatch, candidates |-> <<>>]

\* the extensions of  /\.(md|txt|yaml|yml|json)$/i
Extensions ==
  {<<".", "m", "d">>, <<".", "t", "x", "t">>, <<".", "y", "a", "m", "l">>, <<".", "y", "m", "l">>, <<".", "j", "s", "o", "n">>}

\* specName.replace(/\.(md|txt|yaml|yml|json)$/i, "")
StripExtension(specName) ==
  LET hits == {e \in Extensions : EndsWith(toLowerCase(specName), e)} IN
  IF hits = {} THEN specName
  ELSE SubSeq(specName, 1, Len(specName) - Len(CHOOSE e \in hits : TRUE))

\* path.basename: trailing separators are dropped, the rest is what follows
\* the last separator
basename(p) ==
  LET end == LastIndexOfNot(p, {"/"}, Len(p)) IN
  SubSeq(p, LastIndexOfAny(p, {"/"}, end) + 1, end)

\* path.isAbsolute
isAbsolute(p) == p # <<>> /\ p[1] = "/"

\* the location getSpecPath returns: a directory of the specs root, the path
\* it was given, or the directory above the path it was given
NoLocation == [root |-> "none", name |-> <<>>]

\* getSpecPath(specName); <<>> stands for an undefined or empty name
getSpecPath(specName, fs) ==
  LET separated == Includes(specName, <<"/">>) \/ Includes(specName, <<"\\">>)
      m == fuzzyMatchSpec(basename(StripExtension(specName)), fs) IN
  IF specName = <<>>
  THEN [threw |-> TRUE, error |-> "spec_name input is required",
        location |-> NoLocation, candidates |-> <<>>]
  ELSE IF (isAbsolute(specName) \/ separated) /\ fs.stat = "dir"
  THEN [threw |-> FALSE, error |-> "",
        location |-> [root |-> "given", name |-> specName], candidates |-> <<>>]
  ELSE IF (isAbsolute(specName) \/ separated) /\ fs.stat = "file"
  THEN [threw |-> FALSE, error |-> "",
        location |-> [root |-> "parent", name |-> specName], candidates |-> <<>>]
  ELSE IF m.threw
  THEN [threw |-> TRUE, error |-> m.error, location |-> NoLocation,
        candidates |-> m.candidates]
  ELSE IF m.match # NoMatch
  THEN [threw |-> FALSE, error |-> "",
        location |-> [root |-> "specs", name |-> m.match], candidates |-> <<>>]
  ELSE [threw |-> TRUE, error |-> "Spec not found", location |-> NoLocation,
        candidates |-> <<>>]

\* ------------------------------------------------------------------------
\* Specification parser (src/src/spec/utils.ts)
\* ------------------------------------------------------------------------

NoTask == [none |-> TRUE]

\* line.startsWith("## ")
IsSectionHeader(line) == StartsWith(line, <<"#", "#", " ">>)

\* the part of the task regex in front of the title:  ^- \[\s*([ x])\s*\]
\* CellEnd is the position of the closing bracket
CellEnd(line) == IndexOfAny(line, {"]"}, 4)

Cell(line) == SubSeq(line, 4, CellEnd(line) - 1)

\* number of x characters in a checkbox cell
XCount(cell) == Cardinality({i \in 1..Len(cell) : cell[i] = "x"})

\* parseTasks' task pattern  /^- \[\s*([ x])\s*\] (\d+\. )?(.+)$/
TaskMatch(line) ==
  /\ StartsWith(line, <<"-", " ", "[">>)
  /\ CellEnd(line) <= Len(line)
  /\ \A i \in 1..Len(Cell(line)) : Cell(line)[i] \in Whitespace \cup {"x"}
  /\ XCount(Cell(line)) <= 1
  /\ \E i \in 1..Len(Cell(line)) : Cell(line)[i] \in {" ", "x"}
  /\ CellEnd(line) + 2 <= Len(line)
  /\ line[CellEnd(line) + 1] = " "

\* capture group 1: "x" when the cell holds an x, " " otherwise
MatchCompleted(line) == IF XCount(Cell(line)) = 1 THEN "x" ELSE " "

\* everything behind "] "
AfterBox(line) == SubSeq(line, CellEnd(line) + 2, Len(line))

\* end of the leading digit run of text (0 when text starts with no digit)
DigitsEnd(text) == IndexOfNot(text, Digits, 1) - 1

\* capture group 2 (\d+\. )? takes part only if something is left for (.+)
HasNumberPrefix(text) ==
  /\ DigitsEnd(text) >= 1
  /\ DigitsEnd(text) + 3 <= Len(text)
  /\ text[DigitsEnd(text) + 1] = "."
  /\ text[DigitsEnd(text) + 2] = " "

\* the Task object built at utils.ts:169-191 (line is the 1-based index of
\* the bullet in the document, kept to tell tasks with equal ids apart)
MakeTask(line, idx) ==
  LET text == AfterBox(line) IN
  IF HasNumberPrefix(text)
  THEN [id |-> SubSeq(text, 1, DigitsEnd(text)),
        title |-> Trim(text),
        description |-> <<>>,
        completed |-> MatchCompleted(line) = "x",
        requirements |-> <<>>,
        subtasks |-> <<>>,
        line |-> idx]
  ELSE [id |-> IF FirstWord(text) = <<>> THEN text ELSE FirstWord(text),
        title |-> Trim(text),
        description |-> <<>>,
        completed |-> MatchCompleted(line) = "x",
        requirements |-> <<>>,
        subtasks |-> <<>>,
        line |-> idx]

\* "_Requirements:"
ReqPrefix == <<"_", "R", "e", "q", "u", "i", "r", "e", "m", "e", "n", "t", "s", ":">>

\* String.prototype.split on one character
RECURSIVE Split(_, _)
Split(s, sep) ==
  LET i == IndexOfAny(s, {sep}, 1) IN
  IF i > Len(s) THEN <<s>>
  ELSE <<SubSeq(s, 1, i - 1)>> \o Split(SubSeq(s, i + 1, Len(s)), sep)

\* trimmedLine.replace(/^_Requirements:\s*/, "").replace(/_$/, "")
\*   .split(",").map(r => r.trim())
Requirements(trimmedLine) ==
  LET rest == SubSeq(trimmedLine, Len(ReqPrefix) + 1, Len(trimmedLine))
      body == SubSeq(rest, IndexOfNot(rest, Whitespace, 1), Len(rest))
      reqText == IF body # <<>> /\ body[Len(body)] = "_"
                 THEN SubSeq(body, 1, Len(body) - 1) ELSE body
      parts == Split(reqText, ",") IN
  [i \in 1..Len(parts) |-> Trim(parts[i])]

\* a FoldLine that takes every bullet for a subtask, the requirements line
\* written as a bullet included
FoldLineEveryBullet(task, trimmedLine) ==
  IF StartsWith(trimmedLine, <<"-", " ">>)
  THEN [task EXCEPT !.subtasks = Append(@, SubSeq(trimmedLine, 3, Len(trimmedLine)))]
  ELSE IF StartsWith(trimmedLine, ReqPrefix)
  THEN [task EXCEPT !.requirements = Requirements(trimmedLine)]
  ELSE IF Len(trimmedLine) > 0
  THEN [task EXCEPT !.description =
          IF @ # <<>> THEN @ \o <<"\n">> \o trimmedLine ELSE trimmedLine]
  ELSE task

\* utils.ts:197-217: an indented line is folded into the current task
FoldLine(task, trimmedLine) ==
  IF StartsWith(trimmedLine, ReqPrefix)
  THEN [task EXCEPT !.requirements = Requirements(trimmedLine)]
  ELSE IF StartsWith(trimmedLine, <<"-", " ">>) /\ ~StartsWith(trimmedLine, <<"-", " ", "_">>)
  THEN [task EXCEPT !.subtasks = Append(@, SubSeq(trimmedLine, 3, Len(trimmedLine)))]
  ELSE IF Len(trimmedLine) > 0
  THEN [task EXCEPT !.description =
          IF @ # <<>> THEN @ \o <<"\n">> \o trimmedLine ELSE trimmedLine]
  ELSE task

\* currentSection?.tasks.push(currentTask)
PushTask(sections, task) ==
  IF task = NoTask \/ sections = <<>> THEN sections
  ELSE [sections EXCEPT ![Len(sections)].tasks = Append(@, task)]

\* one iteration of the for loop of parseTasks over the lines
ParseLine(st, line, idx) ==
  IF IsSectionHeader(line)
  THEN [sections |-> Append(PushTask(st.sections, st.cur),
                            [title |-> Trim(SubSeq(line, 4, Len(line))),
                             tasks |-> <<>>]),
        cur |-> NoTask]
  ELSE IF TaskMatch(line)
  THEN [sections |-> PushTask(st.sections, st.cur),
        cur |-> MakeTask(line, idx)]
  ELSE IF st.cur # NoTask /\ StartsWith(line, <<" ", " ">>)
  THEN [st EXCEPT !.cur = FoldLine(st.cur, Trim(line))]
  ELSE st

RECURSIVE ParseFrom(_, _, _)
ParseFrom(st, lines, idx) ==
  IF idx > Len(lines) THEN st
  ELSE ParseFrom(ParseLine(st, lines[idx], idx), lines, idx + 1)

\* parseTasks: the sections of the document
parseTasks(lines) ==
  LET st == ParseFrom([sections |-> <<>>, cur |-> NoTask], lines, 1) IN
  PushTask(st.sections, st.cur)

RECURSIVE Flatten(_)
Flatten(sections) ==
  IF sections = <<>> THEN <<>>
  ELSE Head(sections).tasks \o Flatten(Tail(sections))

\* getAllTasks
getAllTasks(lines) == Flatten(parseTasks(lines))

\* a getNextTask that returns the first task, done or not
getNextTaskAny(lines) ==
  IF getAllTasks(lines) = <<>> THEN NoTask ELSE getAllTasks(lines)[1]

\* getNextTask: first task that is not completed, NoTask for null
getNextTask(lines) ==
  LET all == getAllTasks(lines)
      open == {i \in 1..Len(all) : ~all[i].completed} IN
  IF open = {} THEN NoTask
  ELSE all[CHOOSE i \in open : \A j \in open : i <= j]

\* a getTaskById that takes the first task whose id or title contains the id
getTaskByIdIncludes(lines, taskId) ==
  LET all == getAllTasks(lines)
      hits == {i \in 1..Len(all) :
                 Includes(all[i].id, taskId) \/ Includes(all[i].title, taskId)} IN
  IF hits = {} THEN NoTask
  ELSE all[CHOOSE i \in hits : \A j \in hits : i <= j]

\* getTaskById: tasks.find(task => task.id === taskId) || null
getTaskById(lines, taskId) ==
  LET all == getAllTasks(lines)
      hits == {i \in 1..Len(all) : all[i].id = taskId} IN
  IF hits = {} THEN NoTask
  ELSE all[CHOOSE i \in hits : \A j \in hits : i <= j]

\* Math.round of the non-negative quotient num / den: floor(num / den + 0.5)
MathRound(num, den) == (2 * num + den) \div (2 * den)

\* a getTaskProgress that cuts the percentage off instead of rounding it
getTaskProgressTruncated(lines) ==
  LET all == getAllTasks(lines)
      completed == Cardinality({i \in 1..Len(all) : all[i].completed})
      total == Len(all) IN
  [completed |-> completed, total |-> total,
   percentage |-> IF total > 0 THEN (completed * 100) \div total ELSE 0]

\* getTaskProgress: Math.round((completed / total) * 100)
getTaskProgress(lines) ==
  LET all == getAllTasks(lines)
      completed == Cardinality({i \in 1..Len(all) : all[i].completed})
      total == Len(all) IN
  [completed |-> completed, total |-> total,
   percentage |-> IF total > 0 THEN MathRound(completed * 100, total) ELSE 0]

\* markTaskAsCompleted's pattern  /^- \[\s*\s*\] (.+)$/
UncheckedMatch(line) ==
  /\ StartsWith(line, <<"-", " ", "[">>)
  /\ IndexOfNot(line, Whitespace, 4) <= Len(line)
  /\ line[IndexOfNot(line, Whitespace, 4)] = "]"
  /\ IndexOfNot(line, Whitespace, 4) + 2 <= Len(line)
  /\ line[IndexOfNot(line, Whitespace, 4) + 1] = " "

\* taskMatch[1]
UncheckedTitle(line) == SubSeq(line, IndexOfNot(line, Whitespace, 4) + 2, Len(line))

\* idMatch ? idMatch[1] : taskTitle.split(' ')[0]
TaskIdFromTitle(taskTitle) ==
  IF DigitsEnd(taskTitle) >= 1
     /\ DigitsEnd(taskTitle) + 1 <= Len(taskTitle)
     /\ taskTitle[DigitsEnd(taskTitle) + 1] = "."
  THEN SubSeq(taskTitle, 1, DigitsEnd(taskTitle))
  ELSE FirstWord(taskTitle)

\* the condition under which markTaskAsCompleted flips a line
MarkMatches(line, taskId) ==
  /\ line # <<>>
  /\ UncheckedMatch(line)
  /\ \/ TaskIdFromTitle(UncheckedTitle(line)) = taskId
     \/ Includes(UncheckedTitle(line), taskId)

\* the line markTaskAsCompleted flips; 0 when it throws
MarkTarget(lines, taskId) ==
  LET hits == {i \in 1..Len(lines) : MarkMatches(lines[i], taskId)} IN
  IF hits = {} THEN 0 ELSE CHOOSE i \in hits : \A j \in hits : i <= j

\* line.replace(/- \[\s*\s*\]/, "- [x]")
CheckLine(line) ==
  <<"-", " ", "[", "x", "]">> \o SubSeq(line, IndexOfNot(line, Whitespace, 4) + 1, Len(line))

\* the document written by markTaskAsCompleted (defined for MarkTarget # 0)
markTaskAsCompleted(lines, taskId) ==
  [lines EXCEPT ![MarkTarget(lines, taskId)] = CheckLine(@)]

\* ------------------------------------------------------------------------
\* PR context (src/src/pr-context.ts)
\* ------------------------------------------------------------------------

\* the value of a decimal digit
DigitValue(c) == CASE c = "0" -> 0 [] c = "1" -> 1 [] c = "2" -> 2 [] c = "3" -> 3

\* the value of a run of digits, most significant first
RECURSIVE DigitsValue(_)
DigitsValue(ds) ==
  IF ds = <<>> THEN 0
  ELSE 10 * DigitsValue(SubSeq(ds, 1, Len(ds) - 1)) + DigitValue(ds[Len(ds)])

\* parseInt(s, 10): leading white space is skipped, a sign is taken, then the
\* longest run of digits; NaN when there is no digit
parseInt(s) ==
  LET start == IndexOfNot(s, Whitespace, 1)
      signed == start <= Len(s) /\ s[start] \in {"-", "+"}
      first == IF signed THEN start + 1 ELSE start
      last == IndexOfNot(s, Digits, first) - 1
      magnitude == DigitsValue(SubSeq(s, first, last)) IN
  IF last < first THEN [nan |-> TRUE, value |-> 0]
  ELSE [nan |-> FALSE,
        value |-> IF signed /\ s[start] = "-" THEN 0 - magnitude ELSE magnitude]

\* a getPRContext that takes the flag alone for the context
getPRContextFlagOnly(env) ==
  LET n == parseInt(IF env.USTA_PR_NUMBER = <<>> THEN <<"0">> ELSE env.USTA_PR_NUMBER) IN
  IF env.USTA_PR_MODE # "true"
  THEN [number |-> 0, branch |-> "", commentId |-> "", isEnabled |-> FALSE]
  ELSE [number |-> n.value, branch |-> env.USTA_PR_BRANCH,
        commentId |-> env.USTA_COMMENT_ID, isEnabled |-> TRUE]

\* getPRContext; "" (<<>> for USTA_PR_NUMBER, a sequence of characters) stands
\* for a variable that is not set
getPRContext(env) ==
  LET prNumber == parseInt(IF env.USTA_PR_NUMBER = <<>> THEN <<"0">>
                           ELSE env.USTA_PR_NUMBER) IN
  IF env.USTA_PR_MODE # "true"
  THEN [number |-> 0, branch |-> "", commentId |-> "", isEnabled |-> FALSE]
  ELSE IF prNumber.nan \/ prNumber.value = 0 \/ env.USTA_PR_BRANCH = ""
  THEN [number |-> 0, branch |-> "", commentId |-> "", isEnabled |-> FALSE]
  ELSE [number |-> prNumber.value, branch |-> env.USTA_PR_BRANCH,
        commentId |-> env.USTA_COMMENT_ID, isEnabled |-> TRUE]

\* ------------------------------------------------------------------------
\* Success marker and output capture (prepare-prompt.ts, run-usta.ts)
\* ------------------------------------------------------------------------

\* __TEST_SUCCESS_PHARESE = "__TASK_TEST_COMPLETED__", as its two halves
Marker == <<"__TASK_TEST_", "COMPLETED__">>

\* TestOutputCapture.write: this.output += data
write(output, data) == output \o data

RECURSIVE WriteAll(_, _)
WriteAll(output, chunks) ==
  IF chunks = <<>> THEN output
  ELSE WriteAll(write(output, Head(chunks)), Tail(chunks))

\* SimpleOutputCapture.containsTestSuccess: the heuristic variant
containsTestSuccessHeuristic(output) ==
  \E i \in 1..Len(output) : output[i] \in {"passed"}

\* TestOutputCapture.containsTestSuccess
containsTestSuccess(output) == Includes(output, Marker)

\* `/tmp/prompt-${taskId}.txt`
PromptPath(taskId) ==
  <<"/", "t", "m", "p", "/", "p", "r", "o", "m", "p", "t", "-">> \o taskId \o <<".", "t", "x", "t">>

\* crateTemporaryPromptFile(prompt, taskId): writeFileSync writes the whole
\* text, over a file of the same path if there is one, and throws when the
\* directory of the path does not exist
crateTemporaryPromptFile(files, prompt, taskId, dirExists) ==
  IF ~dirExists
  THEN [threw |-> TRUE, error |-> "ENOENT", files |-> files, path |-> <<>>]
  ELSE [threw |-> FALSE, error |-> "",
        files |-> {f \in files : f.path # PromptPath(taskId)}
                    \cup {[path |-> PromptPath(taskId), text |-> prompt]},
        path |-> PromptPath(taskId)]

\* preparePrompt({specPath, taskId}); the text is what the template is
\* filled with
preparePrompt(lines, taskId, files, dirExists) ==
  LET found == getTaskById(lines, taskId) IN
  IF found = NoTask
  THEN [threw |-> TRUE, error |-> "Task not found", files |-> files, path |-> <<>>]
  ELSE crateTemporaryPromptFile(files, [kind |-> "work", title |-> found.title],
                                found.id, dirExists)

\* createManualTestPrompt({specPath, taskId}); its text names the marker
createManualTestPrompt(lines, taskId, files, dirExists) ==
  LET found == getTaskById(lines, taskId) IN
  IF found = NoTask
  THEN [threw |-> TRUE, error |-> "Task not found", files |-> files, path |-> <<>>]
  ELSE crateTemporaryPromptFile(files,
                                [kind |-> "test", title |-> found.title, marker |-> Marker],
                                <<"t", "e", "s", "t", "-">> \o found.id, dirExists)

\* ------------------------------------------------------------------------
\* Progress reporter (CommentManager, second definition in output-capture.ts)
\* ------------------------------------------------------------------------

\* an attempt or completedOnAttempt that is undefined
Unset == 0

\* a createCommentManager that seeds every task as pending
SeedTasksAllPending(allTasks) ==
  [i \in 1..Len(allTasks) |->
     [taskId |-> allTasks[i].id,
      title |-> allTasks[i].title,
      status |-> "pending",
      startTime |-> Unset,
      endTime |-> Unset,
      attempt |-> 1,
      completedOnAttempt |-> Unset]]

\* createCommentManager: one TaskProgress per task
SeedTasks(allTasks) ==
  [i \in 1..Len(allTasks) |->
     [taskId |-> allTasks[i].id,
      title |-> allTasks[i].title,
      status |-> IF allTasks[i].completed THEN "completed" ELSE "pending",
      startTime |-> Unset,
      endTime |-> Unset,
      attempt |-> 1,
      completedOnAttempt |-> IF allTasks[i].completed THEN 1 ELSE Unset]]

\* this.state.tasks.find(t => t.taskId === taskId): its index, 0 if none
FindProgress(ts, taskId) ==
  LET hits == {i \in 1..Len(ts) : ts[i].taskId = taskId} IN
  IF hits = {} THEN 0 ELSE CHOOSE i \in hits : \A j \in hits : i <= j

\* the timestamps updateTaskStatus leaves in an entry: startTime by the first
\* "working", endTime by the first "completed" or "failed"
StampTask(entry, status, now) ==
  [entry EXCEPT
     !.startTime = IF status = "working" /\ @ = Unset THEN now ELSE @,
     !.endTime = IF status \in {"completed", "failed"} /\ @ = Unset THEN now ELSE @]

\* updateTaskStatus without the snapshot of the attempt on completion (the
\* first CommentManager of output-capture.ts has none)
updateTaskStatusNoSnapshot(ts, taskId, status, attempt, now) ==
  LET i == FindProgress(ts, taskId) IN
  IF i = 0 THEN ts
  ELSE [ts EXCEPT ![i] =
          StampTask([@ EXCEPT !.status = status,
                              !.attempt = IF attempt # Unset THEN attempt ELSE @],
                    status, now)]

\* an updateTaskStatus that stamps the times anew on every call
updateTaskStatusRestamps(ts, taskId, status, attempt, now) ==
  LET i == FindProgress(ts, taskId) IN
  IF i = 0 THEN ts
  ELSE LET att == IF attempt # Unset THEN attempt ELSE ts[i].attempt IN
       [ts EXCEPT ![i] =
          [@ EXCEPT !.status = status,
                    !.attempt = att,
                    !.startTime = IF status = "working" THEN now ELSE @,
                    !.endTime = IF status \in {"completed", "failed"} THEN now ELSE @,
                    !.completedOnAttempt =
                       IF status = "completed"
                       THEN (IF att # 0 THEN att ELSE 1)
                       ELSE @]]

\* an updateTaskStatus that takes the first entry when no entry has the id
updateTaskStatusFirstEntry(ts, taskId, status, attempt, now) ==
  LET found == FindProgress(ts, taskId)
      i == IF found = 0 /\ ts # <<>> THEN 1 ELSE found IN
  IF i = 0 THEN ts
  ELSE LET att == IF attempt # Unset THEN attempt ELSE ts[i].attempt IN
       [ts EXCEPT ![i] =
          StampTask([@ EXCEPT !.status = status,
                              !.attempt = att,
                              !.completedOnAttempt =
                                 IF status = "completed"
                                 THEN (IF att # 0 THEN att ELSE 1)
                                 ELSE @],
                    status, now)]

\* CommentManager.updateTaskStatus (attempt = Unset when not passed); now is
\* what new Date() returns
updateTaskStatus(ts, taskId, status, attempt, now) ==
  LET i == FindProgress(ts, taskId) IN
  IF i = 0 THEN ts
  ELSE LET att == IF attempt # Unset THEN attempt ELSE ts[i].attempt IN
       [ts EXCEPT ![i] =
          StampTask([@ EXCEPT !.status = status,
                              !.attempt = att,
                              !.completedOnAttempt =
                                 IF status = "completed"
                                 THEN (IF att # 0 THEN att ELSE 1)
                                 ELSE @],
                    status, now)]

\* CommentManager.setOverallStatus: the endTime of the run after the call
setOverallStatus(endTime, status, now) ==
  IF status # "running" /\ endTime = Unset THEN now ELSE endTime

\* CommentManager.generateCommentBody: what the report shows
generateCommentBody(ts, overall) ==
  [overallStatus |-> overall,
   tasks |-> [i \in 1..Len(ts) |->
                <<ts[i].status, ts[i].attempt, ts[i].completedOnAttempt>>]]

NoBody == [overallStatus |-> "none", tasks |-> <<>>]

\* an updateComment without the guard on the context
updateCommentUnguarded(ctx, ts, overall, held, apiOk) ==
  IF apiOk THEN generateCommentBody(ts, overall) ELSE held

\* CommentManager.updateComment: the body held by the external target after
\* the call; apiOk is whether callGitHubAPI succeeded
updateComment(ctx, ts, overall, held, apiOk) ==
  IF ~ctx.isEnabled \/ ctx.commentId = "" THEN held
  ELSE IF apiOk THEN generateCommentBody(ts, overall)
  ELSE held

\* CommentManager.updateComment up to the spawn of curl in callGitHubAPI: the
\* PATCH requests in flight after the call; the body is rendered before the
\* request is sent, awaited is whether the caller awaits the promise
sendComment(ctx, ts, overall, flight, at, awaited) ==
  IF ~ctx.isEnabled \/ ctx.commentId = "" THEN flight
  ELSE flight \cup {[body |-> generateCommentBody(ts, overall), at |-> at,
                     awaited |-> awaited]}

\* an updateComment without the try/catch around callGitHubAPI
updateCommentRethrows(ctx, apiOk) ==
  /\ ctx.isEnabled /\ ctx.commentId # ""
  /\ ~apiOk

\* whether the updateComment call rejects: callGitHubAPI runs inside
\* try { ... } catch (error) { console.error(...) } (output-capture.ts:465-473)
updateCommentThrows(ctx, apiOk) ==
  LET caught == TRUE IN
  /\ ctx.isEnabled /\ ctx.commentId # ""
  /\ ~apiOk
  /\ ~caught

\* a startPeriodicUpdates that does not look at this.updateInterval
startPeriodicUpdatesUnguarded(ctx, handle, timers, fresh) ==
  IF ~ctx.isEnabled
  THEN [updateInterval |-> handle, intervals |-> timers, published |-> FALSE]
  ELSE [updateInterval |-> fresh, intervals |-> timers \cup {fresh},
        published |-> TRUE]

\* CommentManager.startPeriodicUpdates: handle is this.updateInterval, timers
\* the live timers, fresh the handle setInterval returns; published is
\* whether updateComment is called at once
startPeriodicUpdates(ctx, handle, timers, fresh) ==
  IF ~ctx.isEnabled \/ handle # Unset
  THEN [updateInterval |-> handle, intervals |-> timers, published |-> FALSE]
  ELSE [updateInterval |-> fresh, intervals |-> timers \cup {fresh},
        published |-> TRUE]

\* CommentManager.stopPeriodicUpdates: clearInterval(this.updateInterval)
stopPeriodicUpdates(handle, timers) ==
  IF handle # Unset
  THEN [updateInterval |-> Unset, intervals |-> timers \ {handle}]
  ELSE [updateInterval |-> handle, intervals |-> timers]

\* the callback of setInterval: whether it calls updateComment
TickPublishes(overall) == overall = "running"

\* ------------------------------------------------------------------------
\* Revision control gateway (git-utils.ts)
\*
\* The working tree is HEAD plus the uncommitted edits in it. An edit is
\* "mod" (a change to a file HEAD tracks) or "new" (a file HEAD does not have).
\* repo = [dirty, staged, headDoc, remote]: dirty is the set of uncommitted
\* edits of the working tree, staged the ones "git add" has put in the index,
\* headDoc the checklist document as committed in HEAD, remote what the last
\* push sent. The checklist document of the working tree is the variable doc;
\* it lives in the repository and HEAD tracks it.
\* ------------------------------------------------------------------------

NoRemote == [doc |-> <<>>, pushed |-> FALSE]

\* whether the "git commit" of gitCommit creates a commit
CommitCreated(repo, doc, o) ==
  o = "commit" /\ (repo.dirty # {} \/ doc # repo.headDoc)

\* gitCommit: "git add ." then "git commit -m"; o is what the two commands do:
\* "addFail" (git add exits non-zero: reject), "commit" (commit exits 0),
\* "noCommit" (commit exits non-zero: resolved all the same). With nothing
\* to commit git commit exits 1 whatever o says.
gitCommit(repo, doc, o) ==
  IF o = "addFail" THEN [threw |-> TRUE, repo |-> repo]
  ELSE IF CommitCreated(repo, doc, o)
  THEN [threw |-> FALSE,
        repo |-> [repo EXCEPT !.dirty = {}, !.staged = {}, !.headDoc = doc]]
  ELSE [threw |-> FALSE, repo |-> [repo EXCEPT !.staged = repo.dirty]]

\* gitPush: p is "ok" (exit 0) or "fail" (reject)
gitPush(repo, p) ==
  IF p = "ok"
  THEN [threw |-> FALSE,
        repo |-> [repo EXCEPT !.remote = [doc |-> repo.headDoc, pushed |-> TRUE]]]
  ELSE [threw |-> TRUE, repo |-> repo]

\* a gitCommitAndPush that pushes to the branch of the environment whenever
\* the flag is set
gitCommitAndPushByFlag(repo, doc, env, branch, o, p) ==
  LET c == gitCommit(repo, doc, o) IN
  IF c.threw THEN c
  ELSE IF env.USTA_PR_MODE = "true" /\ env.USTA_PR_BRANCH # "" THEN gitPush(c.repo, p)
  ELSE c

\* gitCommitAndPush(message, branch)
gitCommitAndPush(repo, doc, env, branch, o, p) ==
  LET c == gitCommit(repo, doc, o) IN
  IF c.threw THEN c
  ELSE IF env.USTA_PR_MODE = "true" /\ branch # "" THEN gitPush(c.repo, p)
  ELSE c

\* what "git reset --hard HEAD" leaves of the uncommitted edits: the files
\* that are neither in HEAD nor in the index (untracked files)
ResetTree(repo) == {e \in repo.dirty : e = "new" /\ e \notin repo.staged}

\* gitRollback: ok is whether git reset exits 0
gitRollback(repo, doc, ok) ==
  IF ok
  THEN [threw |-> FALSE,
        repo |-> [repo EXCEPT !.dirty = ResetTree(repo), !.staged = {}],
        doc |-> repo.headDoc]
  ELSE [threw |-> TRUE, repo |-> repo, doc |-> doc]

\* ------------------------------------------------------------------------
\* Inputs of a run
\* ------------------------------------------------------------------------

Bullet(cell, text) == <<"-", " ", "[">> \o cell \o <<"]", " ">> \o text

SectionLine == <<"#", "#", " ", "S">>

\* "## S", "- [ ] 1. a", "- [ ] 2. b"
DocPlain ==
  <<SectionLine,
    Bullet(<<" ">>, <<"1", ".", " ", "a">>),
    Bullet(<<" ">>, <<"2", ".", " ", "b">>)>>

\* "## S", "- [x] 1. a", "- [  ] 2. b": the first task is already complete
DocResumed ==
  <<SectionLine,
    Bullet(<<"x">>, <<"1", ".", " ", "a">>),
    Bullet(<<" ", " ">>, <<"2", ".", " ", "b">>)>>

\* "## S", "- [x] 1. a", "- [ ] 1. b": two tasks with the same id
DocDuplicate ==
  <<SectionLine,
    Bullet(<<"x">>, <<"1", ".", " ", "a">>),
    Bullet(<<" ">>, <<"1", ".", " ", "b">>)>>

\* "- [ ] 10. o", "## S", "- [ ] 1. a": a bullet in front of the first section
DocStray ==
  <<Bullet(<<" ">>, <<"1", "0", ".", " ", "o">>),
    SectionLine,
    Bullet(<<" ">>, <<"1", ".", " ", "a">>)>>

\* "## S", "- [x] 1. a": nothing left to do
DocAllDone ==
  <<SectionLine, Bullet(<<"x">>, <<"1", ".", " ", "a">>)>>

Docs == {DocPlain, DocResumed, DocDuplicate, DocStray, DocAllDone}

\* the documents for which runs with a failing GitHub API are followed
FlakyDocs == {DocResumed, DocAllDone}

\* the environments of a run: standalone, PR mode with and without a comment
\* id, PR mode with the PR number missing, PR mode with the branch missing
Envs ==
  {[USTA_PR_MODE |-> "", USTA_PR_NUMBER |-> <<>>, USTA_PR_BRANCH |-> "",
    USTA_COMMENT_ID |-> ""],
   [USTA_PR_MODE |-> "true", USTA_PR_NUMBER |-> <<"1", "2">>, USTA_PR_BRANCH |-> "b",
    USTA_COMMENT_ID |-> "c"],
   [USTA_PR_MODE |-> "true", USTA_PR_NUMBER |-> <<"1", "2">>, USTA_PR_BRANCH |-> "b",
    USTA_COMMENT_ID |-> ""],
   [USTA_PR_MODE |-> "true", USTA_PR_NUMBER |-> <<>>, USTA_PR_BRANCH |-> "b",
    USTA_COMMENT_ID |-> "c"],
   [USTA_PR_MODE |-> "true", USTA_PR_NUMBER |-> <<"1", "2">>, USTA_PR_BRANCH |-> "",
    USTA_COMMENT_ID |-> "c"]}

\* the lines of the documents the parser is applied to on its own: a section
\* header, unchecked and checked bullets, a cell of two blanks, an id that
\* contains another id, an empty cell, a line of plain text
ParseLines ==
  {SectionLine,
   Bullet(<<" ">>, <<"1", ".", " ", "a">>),
   Bullet(<<"x">>, <<"1", ".", " ", "a">>),
   Bullet(<<" ", " ">>, <<"2", ".", " ", "b">>),
   Bullet(<<" ">>, <<"1", "0", ".", " ", "o">>),
   Bullet(<<>>, <<"3", ".", " ", "c">>),
   <<"t">>}

\* bound on the number of lines of those documents
MaxLines == 3

\* bound on the number of tasks of the documents with one section of tasks
MaxTasks == 8

\* "## S" and n numbered tasks "- [x] 1. a" or "- [ ] 1. a", the first c of
\* them checked
CountDoc(n, c) ==
  <<SectionLine>> \o
  [i \in 1..n |-> Bullet(IF i <= c THEN <<"x">> ELSE <<" ">>, <<"1", ".", " ", "a">>)]

CountDocs == UNION {{CountDoc(n, c) : c \in 0..n} : n \in 3..MaxTasks}

\* the checkbox cells and the bullet texts of the documents with one bullet:
\* numbered and unnumbered titles, a title after two blanks, a number with
\* nothing behind it, a number without the blank
TitleCells == {<<" ">>, <<"x">>, <<" ", " ">>, <<" ", "x", " ">>}

TitleTexts ==
  {<<"1", ".", " ", "a">>, <<"1", "2", ".", " ", "a", " ", "b">>, <<"S", "e", "t", "u", "p", " ", "d", "b">>, <<"S", "e", "t", "u", "p">>,
   <<" ", "S", "e", "t", "u", "p">>, <<"1", ".", " ">>, <<"1", ".", "a">>, <<"2", " ", "b">>, <<"a", "/", "b", " ", "c">>}

TitleDocs == {<<SectionLine, Bullet(c, t)>> : c \in TitleCells, t \in TitleTexts}

\* the lines that follow a task bullet: subtasks at two depths, requirements
\* lines, a description, a bullet that starts with an underscore, a line of
\* blanks, an empty line, a line indented by one blank
DetailLines ==
  {<<" ", " ", "-", " ", "s">>, <<" ", " ", " ", " ", "-", " ", "u">>, <<" ", " ", "_", "R", "e", "q", "u", "i", "r", "e", "m", "e", "n", "t", "s", ":", " ", "1", ",", " ", "2", "_">>,
   <<" ", " ", "_", "R", "e", "q", "u", "i", "r", "e", "m", "e", "n", "t", "s", ":", "3">>, <<" ", " ", "d", " ", "e">>, <<" ", " ", "-", " ", "_", "n", "_">>,
   <<" ", " ">>, <<>>, <<" ", "-", " ", "o">>}

\* bound on the number of such lines behind a task
MaxDetails == 2

\* what closes the task: the end of the document, the next task, the next
\* section (with an indented line behind it)
DetailTails ==
  {<<>>, <<Bullet(<<" ">>, <<"2", ".", " ", "b">>)>>, <<SectionLine>>,
   <<SectionLine, <<" ", " ", "-", " ", "s">>>>}

DetailDocs ==
  {<<SectionLine, Bullet(<<" ">>, <<"1", ".", " ", "a">>)>> \o d \o t :
     d \in UNION {[1..n -> DetailLines] : n \in 0..MaxDetails}, t \in DetailTails}

ParseDocs ==
  UNION {[1..n -> ParseLines] : n \in 1..MaxLines}
    \cup CountDocs \cup TitleDocs \cup DetailDocs

\* the ids markTaskAsCompleted is called with: ids of tasks, an id no line
\* has, a word of a title
MarkIds == {<<"1">>, <<"2">>, <<"1", "0">>, <<"3">>, <<"9">>, <<"a">>}

\* the names getSpecPath is called with: no name, names of directories in
\* either case, parts of names, a name that contains names, a name nothing
\* matches, names with an extension, a relative and an absolute path
SpecNames ==
  {<<>>, <<"a", "u", "t", "h">>, <<"A", "U", "T", "H">>, <<"a", "u">>, <<"a", "u", "t", "h", "x">>, <<"t", "h">>, <<"q">>,
   <<"a", "u", "t", "h", ".", "m", "d">>, <<"A", "u", "t", "h", ".", "M", "D">>,
   <<"x", "/", "a", "u", "t", "h">>, <<"/", "a", "u", "t", "h">>}

\* what readdir of the specs root may list: directories and a plain file
SpecEntries ==
  {[name |-> <<"a", "u", "t", "h">>, isDir |-> TRUE],
   [name |-> <<"A", "u", "t", "h">>, isDir |-> TRUE],
   [name |-> <<"a", "u", "t", "h", "-", "v", "2">>, isDir |-> TRUE],
   [name |-> <<"o", "a", "u", "t", "h">>, isDir |-> TRUE],
   [name |-> <<"a", "u">>, isDir |-> TRUE],
   [name |-> <<"t", "h">>, isDir |-> FALSE]}

\* bound on the number of entries of the specs root
MaxEntries == 3

\* the listings of the specs root: no name twice
SpecListings ==
  {l \in UNION {[1..n -> SpecEntries] : n \in 0..MaxEntries} :
     \A i, j \in 1..Len(l) : i # j => l[i].name # l[j].name}

\* the file systems getSpecPath is applied to
SpecFiles ==
  {[root |-> "ok", entries |-> l, stat |-> st, tmp |-> {}] :
     l \in SpecListings, st \in {"none", "dir", "file"}}
  \cup {[root |-> r, entries |-> <<>>, stat |-> "none", tmp |-> {}] :
          r \in {"ENOENT", "EACCES"}}

\* the ids the prompts are prepared for: a numbered task, an id no task has,
\* a first word with a slash in it
PromptIds == {<<"1">>, <<"9">>, <<"a", "/", "b">>}

\* whether the directory a prompt file is written to exists: /tmp does, a
\* directory that a slash in the task id makes of the file name may not
DirStates(taskId) == IF Includes(taskId, <<"/">>) THEN BOOLEAN ELSE {TRUE}

\* the calls the reporter is given on its own: every status, for the ids of
\* tasks and for an id no task has, with and without an attempt
Statuses == {"pending", "working", "testing", "completed", "failed"}

OverallStatuses == {"running", "completed", "failed"}

ReporterIds == {<<"1">>, <<"2">>, <<"9">>}

ReporterAttempts == {Unset, 2}

\* bound on the clock of the reporter on its own: the calls are made at the
\* times below it
MaxNow == 5

\* bound on the clock of a reporter with periodic updates
MaxClock == 6

\* the tasks and statuses of the status calls a run makes while the timer is
\* live
PeriodicIds == {<<"1">>, <<"2">>}

PeriodicStatuses == {"working", "completed"}

\* the environments getPRContext is applied to on its own
PRFlags == {"", "true", "TRUE", "false", "1"}

PRNumbers ==
  {<<>>, <<"0">>, <<"0", "0">>, <<"3">>, <<"1", "2">>, <<"-", "2">>, <<"-", "0">>,
   <<"+", "1">>, <<" ", "3">>, <<"1", "a">>, <<"a", "1">>, <<"a">>, <<"-">>}

PREnvs ==
  [USTA_PR_MODE : PRFlags, USTA_PR_NUMBER : PRNumbers,
   USTA_PR_BRANCH : {"", "b"}, USTA_COMMENT_ID : {"", "c"}]

\* what a verification run may write to the output stream, as a sequence of
\* chunks: nothing, prose that claims success, the marker, the marker split
\* over two chunks, the halves of the marker in the wrong order
AgentOutputs ==
  {<<>>,
   <<<<"passed">>>>,
   <<Marker>>,
   <<<<"reason", "__TASK_TEST_">>, <<"COMPLETED__">>>>,
   <<<<"COMPLETED__">>, <<"__TASK_TEST_">>>>}

\* the kinds of edit an agent run may leave in the working tree
EditChoices == {{}, {"mod"}, {"new"}}

CommitOutcomes == {"addFail", "commit", "noCommit"}

\* how the start of a run goes: the configuration is invalid
\* (validateEnvironmentVariables throws), the specification is not found
\* (getSpecPath throws), or both return
StartupOutcomes == {"ok", "invalidConfig", "specNotFound"}

PushOutcomes == {"ok", "fail"}

\* ------------------------------------------------------------------------
\* The orchestrator, runUsta (run-usta.ts:53-221)
\* ------------------------------------------------------------------------

\* while (tries < 3 && !taskCompleted)
MaxTries == 3

\* bound on the iterations of the outer while loop a run is followed for
MaxRounds == 3

VARIABLES
  env,            \* process.env, as far as the run reads it
  ctx,            \* prContext
  doc,            \* tasks.md in the working tree
  repo,           \* the git repository: uncommitted edits, index, HEAD, remote
  tasks,          \* commentManager.state.tasks
  overallStatus,  \* commentManager.state.overallStatus
  apiMayFail,     \* whether calls of the GitHub API can fail in this run
  held,           \* the report body the external target holds
  lastPublish,    \* the report of the latest updateComment call
  pc,             \* where runUsta stands
  task,           \* the local variable task
  tries,          \* the local variable tries
  taskCompleted,  \* the local variable taskCompleted
  capture,        \* testCapture.output, <<>> outside the try block
  exitCode,       \* the exit code of the process, -1 while it runs
  rounds,         \* iterations of the outer loop started so far
  attemptsOf,     \* per document line: attempts started for that task
  markCalls,      \* per document line: markTaskAsCompleted calls for that task
  completeCommits,\* per document line: "Complete task" commit-and-push calls that returned
  verdicts,       \* this outer iteration's attempts: "pass", "fail" (no marker), "error" (a throw)
  gitThrew,       \* a git call of an attempt of this outer iteration threw
  roundRollbacks, \* gitRollback calls made in this outer iteration
  publishThrew,   \* the latest updateComment call rejected
  call,           \* the library function applied on its own, NoCall in a run
  fsys,           \* the file system as getSpecPath sees it
  now,            \* what new Date() returns; in a run the clock advances when
                  \* a task and when an attempt is started
  endTime,        \* commentManager.state.endTime, Unset while it is undefined
  updateInterval, \* commentManager.updateInterval, Unset while it is undefined
  intervals,      \* the timers of setInterval that have not been cleared
  inflight,       \* the PATCH requests of updateComment calls that have not settled
  beforeCommits,  \* per document line: "Before starting task" commit-and-push calls issued
  roundCommits,   \* "Complete task" commits git created in this outer iteration
  roundDoc        \* tasks.md as it was when this outer iteration began

\* the state that only library functions applied on their own read or write
libVars == <<fsys, updateInterval, intervals, inflight>>

vars ==
  <<env, ctx, apiMayFail, doc, repo, tasks, overallStatus, held, lastPublish, pc, task,
    tries, taskCompleted, capture, exitCode, rounds, attemptsOf,
    markCalls, completeCommits, verdicts, gitThrew, roundRollbacks, publishThrew, call, libVars, now, endTime,
    beforeCommits, roundCommits, roundDoc>>

ghosts ==
  <<attemptsOf, markCalls, completeCommits, verdicts, gitThrew, roundRollbacks,
    beforeCommits, roundCommits, roundDoc>>

NoCall == [op |-> "none"]

\* the outcomes of callGitHubAPI: TRUE for success
ApiOutcomes == IF apiMayFail THEN BOOLEAN ELSE {TRUE}

Bump(f, line) == [f EXCEPT ![line] = @ + 1]

Init ==
  /\ env \in Envs
  /\ ctx = getPRContext(env)
  /\ doc \in Docs
  /\ apiMayFail \in BOOLEAN
  /\ apiMayFail => doc \in FlakyDocs
  /\ repo = [dirty |-> {}, staged |-> {}, headDoc |-> doc, remote |-> NoRemote]
  /\ tasks = <<>>
  /\ overallStatus = "running"
  /\ held = NoBody
  /\ lastPublish = NoBody
  /\ pc = "start"
  /\ task = NoTask
  /\ tries = 0
  /\ taskCompleted = FALSE
  /\ capture = <<>>
  /\ exitCode = -1
  /\ rounds = 0
  /\ attemptsOf = [i \in 1..Len(doc) |-> 0]
  /\ markCalls = [i \in 1..Len(doc) |-> 0]
  /\ completeCommits = [i \in 1..Len(doc) |-> 0]
  /\ verdicts = <<>>
  /\ gitThrew = FALSE
  /\ roundRollbacks = 0
  /\ publishThrew = FALSE
  /\ call = NoCall
  /\ fsys = NoFiles
  /\ now = 1
  /\ endTime = Unset
  /\ updateInterval = Unset
  /\ intervals = {}
  /\ inflight = {}
  /\ beforeCommits = [i \in 1..Len(doc) |-> 0]
  /\ roundCommits = 0
  /\ roundDoc = doc

\* run-usta.ts:55-74: validateEnvironmentVariables and getSpecPath, which
\* throw on an invalid configuration and on a specification that is not found;
\* then getAllTasks, createCommentManager (which publishes the initial report
\* when the context is enabled), getNextTask
Start ==
  /\ pc = "start"
  /\ \E startup \in StartupOutcomes :
       IF startup # "ok"
       THEN /\ pc' = "outerCatch"
            /\ UNCHANGED <<tasks, held, publishThrew, lastPublish, task>>
       ELSE /\ tasks' = SeedTasks(getAllTasks(doc))
            /\ \E apiOk \in ApiOutcomes :
                 /\ held' = IF ctx.isEnabled
                            THEN updateComment(ctx, tasks', overallStatus, held, apiOk)
                            ELSE held
                 /\ publishThrew' = (ctx.isEnabled /\ updateCommentThrows(ctx, apiOk))
            /\ lastPublish' = IF ctx.isEnabled
                              THEN generateCommentBody(tasks', overallStatus)
                              ELSE lastPublish
            /\ task' = IF publishThrew' THEN task ELSE getNextTask(doc)
            /\ pc' = IF publishThrew' THEN "outerCatch" ELSE "loop"
  /\ UNCHANGED <<env, ctx, apiMayFail, call, libVars, now, endTime, doc, repo, overallStatus, tries, taskCompleted,
                 capture, exitCode, rounds, ghosts>>

\* run-usta.ts:75-87: report the task as working, commit what is there
BeginTask ==
  /\ pc = "loop"
  /\ task # NoTask
  /\ rounds < MaxRounds
  /\ rounds' = rounds + 1
  /\ tasks' = updateTaskStatus(tasks, task.id, "working", Unset, now)
  /\ lastPublish' = generateCommentBody(tasks', overallStatus)
  /\ \E apiOk \in ApiOutcomes :
       /\ held' = updateComment(ctx, tasks', overallStatus, held, apiOk)
       /\ publishThrew' = updateCommentThrows(ctx, apiOk)
  /\ \E o \in CommitOutcomes, p \in PushOutcomes :
       LET g == gitCommitAndPush(repo, doc, env, ctx.branch, o, p) IN
       /\ repo' = IF publishThrew' THEN repo ELSE g.repo
       /\ pc' = IF publishThrew' \/ g.threw THEN "outerCatch" ELSE "retry"
  /\ beforeCommits' = IF publishThrew' THEN beforeCommits
                      ELSE Bump(beforeCommits, task.line)
  /\ roundDoc' = doc
  /\ roundCommits' = 0
  /\ tries' = 0
  /\ taskCompleted' = FALSE
  /\ verdicts' = <<>>
  /\ gitThrew' = FALSE
  /\ roundRollbacks' = 0
  /\ now' = now + 1
  /\ UNCHANGED <<env, ctx, apiMayFail, call, libVars, endTime, doc, overallStatus, task, capture,
                 exitCode, attemptsOf, markCalls, completeCommits>>

\* run-usta.ts:89-95: the loop test, tries++, report the attempt
BeginAttempt ==
  /\ pc = "retry"
  /\ tries < MaxTries /\ ~taskCompleted
  /\ tries' = tries + 1
  /\ tasks' = updateTaskStatus(tasks, task.id, "working", tries', now)
  /\ lastPublish' = generateCommentBody(tasks', overallStatus)
  /\ \E apiOk \in ApiOutcomes :
       /\ held' = updateComment(ctx, tasks', overallStatus, held, apiOk)
       /\ publishThrew' = updateCommentThrows(ctx, apiOk)
  /\ attemptsOf' = IF publishThrew' THEN attemptsOf ELSE Bump(attemptsOf, task.line)
  /\ pc' = IF publishThrew' THEN "outerCatch" ELSE "work"
  /\ now' = now + 1
  /\ UNCHANGED <<env, ctx, apiMayFail, beforeCommits, roundCommits, roundDoc, call, libVars, endTime, doc, repo, overallStatus, task, taskCompleted,
                 capture, exitCode, rounds, markCalls,
                 completeCommits, verdicts, gitThrew, roundRollbacks>>

\* run-usta.ts:97-123: preparePrompt and the work run of the agent, which has
\* no output capture; the run edits the working tree and returns or throws
WorkRun ==
  /\ pc = "work"
  /\ IF getTaskById(doc, task.id) = NoTask
     THEN /\ pc' = "catch"
          /\ verdicts' = Append(verdicts, "error")
          /\ UNCHANGED repo
     ELSE \E kinds \in EditChoices, throws \in BOOLEAN :
          /\ repo' = [repo EXCEPT !.dirty = @ \cup kinds]
          /\ pc' = IF throws THEN "catch" ELSE "test"
          /\ verdicts' = IF throws THEN Append(verdicts, "error") ELSE verdicts
  /\ UNCHANGED <<env, ctx, apiMayFail, beforeCommits, roundCommits, roundDoc, call, libVars, now, endTime, publishThrew, doc, tasks, overallStatus, held, lastPublish, task,
                 tries, taskCompleted, capture, exitCode, rounds, attemptsOf,
                 markCalls, completeCommits, gitThrew, roundRollbacks>>

\* run-usta.ts:126-164: report testing, createManualTestPrompt, a fresh
\* TestOutputCapture, the verification run, containsTestSuccess
TestRun ==
  /\ pc = "test"
  /\ tasks' = updateTaskStatus(tasks, task.id, "testing", Unset, now)
  /\ lastPublish' = generateCommentBody(tasks', overallStatus)
  /\ \E apiOk \in ApiOutcomes :
       /\ held' = updateComment(ctx, tasks', overallStatus, held, apiOk)
       /\ publishThrew' = updateCommentThrows(ctx, apiOk)
  /\ IF publishThrew' \/ getTaskById(doc, task.id) = NoTask
     THEN /\ pc' = "catch"
          /\ verdicts' = Append(verdicts, "error")
          /\ capture' = <<>>
          /\ UNCHANGED repo
     ELSE \E out \in AgentOutputs, kinds \in EditChoices, throws \in BOOLEAN :
          /\ capture' = IF throws THEN <<>> ELSE WriteAll(<<>>, out)
          /\ repo' = [repo EXCEPT !.dirty = @ \cup kinds]
          /\ pc' = IF throws THEN "catch"
                   ELSE IF containsTestSuccess(WriteAll(<<>>, out)) THEN "commit"
                   ELSE "rollback"
          /\ verdicts' = Append(verdicts,
                            IF throws THEN "error"
                            ELSE IF containsTestSuccess(WriteAll(<<>>, out)) THEN "pass"
                            ELSE "fail")
  /\ UNCHANGED <<env, ctx, apiMayFail, beforeCommits, roundCommits, roundDoc, call, libVars, now, endTime, doc, overallStatus, task, tries, taskCompleted,
                 exitCode, rounds, attemptsOf, markCalls, completeCommits,
                 gitThrew, roundRollbacks>>

\* run-usta.ts:166-174: "Complete task" commit-and-push, report completed
CompleteTask ==
  /\ pc = "commit"
  /\ \E o \in CommitOutcomes, p \in PushOutcomes, apiOk \in ApiOutcomes :
       LET g == gitCommitAndPush(repo, doc, env, ctx.branch, o, p) IN
       /\ repo' = g.repo
       /\ roundCommits' = IF CommitCreated(repo, doc, o)
                          THEN roundCommits + 1
                          ELSE roundCommits
       /\ IF g.threw
          THEN /\ pc' = "catch"
               /\ gitThrew' = TRUE
               /\ UNCHANGED <<tasks, held, lastPublish, taskCompleted, completeCommits,
                              publishThrew>>
          ELSE /\ tasks' = updateTaskStatus(tasks, task.id, "completed", Unset, now)
               /\ lastPublish' = generateCommentBody(tasks', overallStatus)
               /\ held' = updateComment(ctx, tasks', overallStatus, held, apiOk)
               /\ publishThrew' = updateCommentThrows(ctx, apiOk)
               /\ taskCompleted' = ~publishThrew'
               /\ completeCommits' = Bump(completeCommits, task.line)
               /\ pc' = IF publishThrew' THEN "catch" ELSE "retry"
               /\ UNCHANGED gitThrew
  /\ capture' = <<>>
  /\ UNCHANGED <<env, ctx, apiMayFail, beforeCommits, roundDoc, call, libVars, now, endTime, doc, overallStatus, task, tries, exitCode, rounds,
                 attemptsOf, markCalls, verdicts, roundRollbacks>>

\* run-usta.ts:175-181: the marker is absent: gitRollback
RollbackFailedTest ==
  /\ pc = "rollback"
  /\ \E ok \in BOOLEAN :
       LET g == gitRollback(repo, doc, ok) IN
       /\ repo' = g.repo
       /\ doc' = g.doc
       /\ pc' = IF g.threw THEN "catch" ELSE "retry"
       /\ gitThrew' = (gitThrew \/ g.threw)
  /\ roundRollbacks' = roundRollbacks + 1
  /\ capture' = <<>>
  /\ UNCHANGED <<env, ctx, apiMayFail, beforeCommits, roundCommits, roundDoc, call, libVars, now, endTime, publishThrew, tasks, overallStatus, held, lastPublish, task,
                 tries, taskCompleted, exitCode, rounds, attemptsOf, markCalls,
                 completeCommits, verdicts>>

\* run-usta.ts:183-190: the catch block of an attempt: gitRollback
CatchRollback ==
  /\ pc = "catch"
  /\ \E ok \in BOOLEAN :
       LET g == gitRollback(repo, doc, ok) IN
       /\ repo' = g.repo
       /\ doc' = g.doc
       /\ pc' = IF g.threw THEN "outerCatch" ELSE "retry"
       /\ gitThrew' = (gitThrew \/ g.threw)
  /\ roundRollbacks' = roundRollbacks + 1
  /\ UNCHANGED <<env, ctx, apiMayFail, beforeCommits, roundCommits, roundDoc, call, libVars, now, endTime, publishThrew, tasks, overallStatus, held, lastPublish, task,
                 tries, taskCompleted, capture, exitCode, rounds,
                 attemptsOf, markCalls, completeCommits, verdicts>>

\* an orchestrator that reports the failed task and goes on with the loop
\* instead of ending the run
TaskFailedContinues ==
  /\ pc = "retry"
  /\ tries >= MaxTries /\ ~taskCompleted
  /\ tasks' = updateTaskStatus(tasks, task.id, "failed", Unset, now)
  /\ lastPublish' = generateCommentBody(tasks', overallStatus)
  /\ \E apiOk \in ApiOutcomes :
       /\ held' = updateComment(ctx, tasks', overallStatus, held, apiOk)
       /\ publishThrew' = updateCommentThrows(ctx, apiOk)
  /\ pc' = "loop"
  /\ UNCHANGED <<env, ctx, apiMayFail, call, libVars, now, endTime, doc, repo, overallStatus, task, tries,
                 taskCompleted, capture, exitCode, rounds, ghosts>>

\* run-usta.ts:193-204: the attempts are used up: report failed, exit(1)
TaskFailed ==
  /\ pc = "retry"
  /\ ~(tries < MaxTries /\ ~taskCompleted)
  /\ ~taskCompleted
  /\ tasks' = updateTaskStatus(tasks, task.id, "failed", Unset, now)
  /\ overallStatus' = "failed"
  /\ endTime' = setOverallStatus(endTime, "failed", now)
  /\ lastPublish' = generateCommentBody(tasks', overallStatus')
  /\ \E apiOk \in ApiOutcomes :
       /\ held' = updateComment(ctx, tasks', overallStatus', held, apiOk)
       /\ publishThrew' = updateCommentThrows(ctx, apiOk)
  /\ exitCode' = IF publishThrew' THEN exitCode ELSE 1
  /\ pc' = IF publishThrew' THEN "outerCatch" ELSE "exited"
  /\ UNCHANGED <<env, ctx, apiMayFail, call, libVars, now, doc, repo, task, tries, taskCompleted, capture, rounds, ghosts>>

\* run-usta.ts:206-208: markTaskAsCompleted, getNextTask
MarkAndNext ==
  /\ pc = "retry"
  /\ taskCompleted
  /\ markCalls' = Bump(markCalls, task.line)
  /\ roundCommits' = 0
  /\ IF MarkTarget(doc, task.id) = 0
     THEN /\ pc' = "outerCatch"
          /\ UNCHANGED <<doc, task>>
     ELSE /\ doc' = markTaskAsCompleted(doc, task.id)
          /\ task' = getNextTask(doc')
          /\ pc' = "loop"
  /\ UNCHANGED <<env, ctx, apiMayFail, beforeCommits, roundDoc, call, libVars, now, endTime, publishThrew, repo, tasks, overallStatus, held, lastPublish,
                 tries, taskCompleted, capture, exitCode, rounds,
                 attemptsOf, completeCommits, verdicts, gitThrew,
                 roundRollbacks>>

\* an orchestrator that reports completion whenever it is at the head of the
\* loop
FinishEarly ==
  /\ pc = "loop"
  /\ overallStatus' = "completed"
  /\ endTime' = setOverallStatus(endTime, "completed", now)
  /\ lastPublish' = generateCommentBody(tasks, overallStatus')
  /\ \E apiOk \in ApiOutcomes :
       /\ held' = updateComment(ctx, tasks, overallStatus', held, apiOk)
       /\ publishThrew' = updateCommentThrows(ctx, apiOk)
  /\ exitCode' = 0
  /\ pc' = "done"
  /\ UNCHANGED <<env, ctx, apiMayFail, call, libVars, now, doc, repo, tasks, task, tries,
                 taskCompleted, capture, rounds, ghosts>>

\* run-usta.ts:211-215: no task is left: report completed; the process ends
Finish ==
  /\ pc = "loop"
  /\ task = NoTask
  /\ overallStatus' = "completed"
  /\ endTime' = setOverallStatus(endTime, "completed", now)
  /\ lastPublish' = generateCommentBody(tasks, overallStatus')
  /\ \E apiOk \in ApiOutcomes :
       /\ held' = updateComment(ctx, tasks, overallStatus', held, apiOk)
       /\ publishThrew' = updateCommentThrows(ctx, apiOk)
  /\ exitCode' = IF publishThrew' THEN exitCode ELSE 0
  /\ pc' = IF publishThrew' THEN "outerCatch" ELSE "done"
  /\ UNCHANGED <<env, ctx, apiMayFail, call, libVars, now, doc, repo, tasks, task, tries, taskCompleted,
                 capture, rounds, ghosts>>

\* an outer catch that logs the error and lets the process end normally
OuterCatchExitsZero ==
  /\ pc = "outerCatch"
  /\ exitCode' = 0
  /\ pc' = "exited"
  /\ UNCHANGED <<env, ctx, apiMayFail, call, libVars, now, endTime, publishThrew, doc, repo, tasks,
                 overallStatus, held, lastPublish, task, tries, taskCompleted,
                 capture, rounds, ghosts>>

\* run-usta.ts:216-220: the outer catch: setFailed, exit(1)
OuterCatch ==
  /\ pc = "outerCatch"
  /\ exitCode' = 1
  /\ pc' = "exited"
  /\ UNCHANGED <<env, ctx, apiMayFail, call, libVars, now, endTime, publishThrew, doc, repo, tasks, overallStatus, held, lastPublish,
                 task, tries, taskCompleted, capture, rounds,
                 ghosts>>

Next ==
  \/ Start
  \/ BeginTask
  \/ BeginAttempt
  \/ WorkRun
  \/ TestRun
  \/ CompleteTask
  \/ RollbackFailedTest
  \/ CatchRollback
  \/ TaskFailed
  \/ MarkAndNext
  \/ Finish
  \/ OuterCatch

Spec == Init /\ [][Next]_vars

\* ------------------------------------------------------------------------
\* Library functions applied on their own
\* ------------------------------------------------------------------------

\* the variables of a run that a library function does not touch
runVars ==
  <<apiMayFail, overallStatus, held, lastPublish, tries, taskCompleted, capture,
    exitCode, rounds, ghosts, publishThrew>>

\* the variables of a run and the file system
otherVars == <<runVars, libVars, now, endTime>>

\* no run is under way
NoRun ==
  /\ apiMayFail = FALSE
  /\ overallStatus = "running"
  /\ held = NoBody
  /\ lastPublish = NoBody
  /\ tries = 0
  /\ taskCompleted = FALSE
  /\ capture = <<>>
  /\ exitCode = -1
  /\ rounds = 0
  /\ attemptsOf = <<>>
  /\ markCalls = <<>>
  /\ completeCommits = <<>>
  /\ verdicts = <<>>
  /\ gitThrew = FALSE
  /\ roundRollbacks = 0
  /\ publishThrew = FALSE
  /\ beforeCommits = <<>>
  /\ roundCommits = 0
  /\ roundDoc = <<>>

\* no file system is looked at, no reporter has read the clock or set a timer
NoLookup ==
  /\ fsys = NoFiles
  /\ now = 1
  /\ endTime = Unset
  /\ updateInterval = Unset
  /\ intervals = {}
  /\ inflight = {}

NoContext == [number |-> 0, branch |-> "", commentId |-> "", isEnabled |-> FALSE]

\* process.env is set, getPRContext has not been called
InitPR ==
  /\ env \in PREnvs
  /\ ctx = NoContext
  /\ doc = <<>>
  /\ repo = [dirty |-> {}, staged |-> {}, headDoc |-> <<>>, remote |-> NoRemote]
  /\ tasks = <<>>
  /\ task = NoTask
  /\ pc = "env"
  /\ call = NoCall
  /\ NoRun
  /\ NoLookup

\* const prContext = getPRContext()
ResolveContext ==
  /\ pc = "env"
  /\ ctx' = getPRContext(env)
  /\ call' = [op |-> "getPRContext", threw |-> FALSE]
  /\ pc' = "resolved"
  /\ UNCHANGED <<env, doc, repo, tasks, task, otherVars>>

NextPR == ResolveContext

\* tasks.md holds a document; the parser has not been called. repo.headDoc
\* keeps the document as it was written
InitParse ==
  /\ env = [USTA_PR_MODE |-> "", USTA_PR_NUMBER |-> <<>>, USTA_PR_BRANCH |-> "",
            USTA_COMMENT_ID |-> ""]
  /\ ctx = NoContext
  /\ doc \in ParseDocs
  /\ repo = [dirty |-> {}, staged |-> {}, headDoc |-> doc, remote |-> NoRemote]
  /\ tasks = <<>>
  /\ task = NoTask
  /\ pc = "file"
  /\ call = NoCall
  /\ NoRun
  /\ NoLookup

\* getAllTasks (seeding the reporter, as runUsta does) and getNextTask
ListTasks ==
  /\ pc \in {"file", "marked"}
  /\ tasks' = SeedTasks(getAllTasks(doc))
  /\ task' = getNextTask(doc)
  /\ call' = IF pc = "file" THEN [op |-> "getAllTasks", threw |-> FALSE] ELSE call
  /\ pc' = IF pc = "file" THEN "parsed" ELSE "reparsed"
  /\ UNCHANGED <<env, ctx, doc, repo, otherVars>>

\* markTaskAsCompleted(specPath, id): the document is written, or the call
\* throws and nothing is written
MarkTask ==
  /\ pc = "parsed"
  /\ \E id \in MarkIds :
       /\ call' = [op |-> "markTaskAsCompleted", id |-> id,
                   threw |-> MarkTarget(doc, id) = 0]
       /\ doc' = IF MarkTarget(doc, id) = 0 THEN doc ELSE markTaskAsCompleted(doc, id)
  /\ pc' = "marked"
  /\ UNCHANGED <<env, ctx, repo, tasks, task, otherVars>>

\* getTaskById(specPath, id) on the document as it stands
LookupTask ==
  /\ pc \in {"parsed", "reparsed"}
  /\ \E id \in MarkIds :
       call' = [op |-> "getTaskById", id |-> id, threw |-> FALSE,
                result |-> getTaskById(doc, id)]
  /\ pc' = "lookup"
  /\ UNCHANGED <<env, ctx, doc, repo, tasks, task, otherVars>>

\* getTaskProgress(specPath) on the document as it stands
TaskProgress ==
  /\ pc \in {"parsed", "reparsed"}
  /\ call' = [op |-> "getTaskProgress", threw |-> FALSE,
              result |-> getTaskProgress(doc)]
  /\ pc' = "progress"
  /\ UNCHANGED <<env, ctx, doc, repo, tasks, task, otherVars>>

\* run-usta.ts:99-102: preparePrompt for a task id
WorkPrompt ==
  /\ pc = "parsed"
  /\ \E id \in PromptIds : \E dirExists \in DirStates(id) :
       LET r == preparePrompt(doc, id, fsys.tmp, dirExists) IN
       /\ call' = [op |-> "preparePrompt", id |-> id, threw |-> r.threw,
                   error |-> r.error, path |-> r.path]
       /\ fsys' = [fsys EXCEPT !.tmp = r.files]
  /\ pc' = "prompted"
  /\ UNCHANGED <<env, ctx, doc, repo, tasks, task, runVars, now, endTime,
                 updateInterval, intervals, inflight>>

\* run-usta.ts:132-135: createManualTestPrompt for the same task id
TestPrompt ==
  /\ pc = "prompted"
  /\ \E dirExists \in DirStates(call.id) :
       LET r == createManualTestPrompt(doc, call.id, fsys.tmp, dirExists) IN
       /\ call' = [op |-> "createManualTestPrompt", id |-> call.id,
                   threw |-> r.threw, error |-> r.error, path |-> r.path]
       /\ fsys' = [fsys EXCEPT !.tmp = r.files]
  /\ pc' = "testPrompted"
  /\ UNCHANGED <<env, ctx, doc, repo, tasks, task, runVars, now, endTime,
                 updateInterval, intervals, inflight>>

NextParse ==
  \/ ListTasks
  \/ MarkTask
  \/ LookupTask
  \/ TaskProgress
  \/ WorkPrompt
  \/ TestPrompt

\* the specs root holds some entries; getSpecPath has not been called
InitResolve ==
  /\ env = [USTA_PR_MODE |-> "", USTA_PR_NUMBER |-> <<>>, USTA_PR_BRANCH |-> "",
            USTA_COMMENT_ID |-> ""]
  /\ ctx = NoContext
  /\ doc = <<>>
  /\ repo = [dirty |-> {}, staged |-> {}, headDoc |-> <<>>, remote |-> NoRemote]
  /\ tasks = <<>>
  /\ task = NoTask
  /\ pc = "files"
  /\ call = NoCall
  /\ NoRun
  /\ fsys \in SpecFiles
  /\ now = 1
  /\ endTime = Unset
  /\ updateInterval = Unset
  /\ intervals = {}
  /\ inflight = {}

\* const specPath = await getSpecPath(specName)
ResolveSpec ==
  /\ pc = "files"
  /\ \E name \in SpecNames :
       call' = [op |-> "getSpecPath", name |-> name,
                threw |-> getSpecPath(name, fsys).threw,
                result |-> getSpecPath(name, fsys)]
  /\ pc' = "located"
  /\ UNCHANGED <<env, ctx, doc, repo, tasks, task, otherVars>>

NextResolve == ResolveSpec

SpecResolve == InitResolve /\ [][NextResolve]_vars

\* the contexts a reporter is created with: disabled, enabled with and
\* without a comment id
ReporterContexts ==
  {NoContext,
   [number |-> 12, branch |-> "b", commentId |-> "c", isEnabled |-> TRUE],
   [number |-> 12, branch |-> "b", commentId |-> "", isEnabled |-> TRUE]}

\* the documents whose tasks the reporter is created with
ReporterDocs == {DocResumed, DocDuplicate}

\* the tasks are read, createCommentManager has not been called
InitReporter ==
  /\ env = [USTA_PR_MODE |-> "", USTA_PR_NUMBER |-> <<>>, USTA_PR_BRANCH |-> "",
            USTA_COMMENT_ID |-> ""]
  /\ ctx \in ReporterContexts
  /\ doc \in ReporterDocs
  /\ repo = [dirty |-> {}, staged |-> {}, headDoc |-> doc, remote |-> NoRemote]
  /\ tasks = <<>>
  /\ task = NoTask
  /\ pc = "tasks"
  /\ call = NoCall
  /\ NoRun
  /\ NoLookup

\* the variables no method of the reporter touches
reporterFrame ==
  <<env, ctx, doc, repo, task, fsys, inflight, apiMayFail, tries, taskCompleted,
    capture, exitCode, rounds, ghosts, publishThrew>>

\* createCommentManager(context, specName, allTasks)
CreateReporter ==
  /\ pc = "tasks"
  /\ tasks' = SeedTasks(getAllTasks(doc))
  /\ \E apiOk \in ApiOutcomes :
       held' = IF ctx.isEnabled
               THEN updateComment(ctx, tasks', overallStatus, held, apiOk)
               ELSE held
  /\ lastPublish' = IF ctx.isEnabled
                    THEN generateCommentBody(tasks', overallStatus)
                    ELSE lastPublish
  /\ call' = [op |-> "createCommentManager", threw |-> FALSE]
  /\ pc' = "reporter"
  /\ now' = now + 1
  /\ UNCHANGED <<reporterFrame, overallStatus, endTime, updateInterval, intervals>>

\* commentManager.updateTaskStatus(id, status, attempt)
SetTaskStatus ==
  /\ pc = "reporter" /\ now < MaxNow
  /\ \E id \in ReporterIds, status \in Statuses, attempt \in ReporterAttempts :
       /\ tasks' = updateTaskStatus(tasks, id, status, attempt, now)
       /\ call' = [op |-> "updateTaskStatus", id |-> id, status |-> status,
                   threw |-> FALSE]
  /\ now' = now + 1
  /\ UNCHANGED <<reporterFrame, pc, overallStatus, endTime, held, lastPublish,
                 updateInterval, intervals>>

\* commentManager.setOverallStatus(status)
SetOverallStatus ==
  /\ pc = "reporter" /\ now < MaxNow
  /\ \E status \in OverallStatuses :
       /\ overallStatus' = status
       /\ endTime' = setOverallStatus(endTime, status, now)
       /\ call' = [op |-> "setOverallStatus", status |-> status, threw |-> FALSE]
  /\ now' = now + 1
  /\ UNCHANGED <<reporterFrame, pc, tasks, held, lastPublish, updateInterval,
                 intervals>>

\* commentManager.startPeriodicUpdates(): the timer setInterval returns is
\* named by the time of the call
StartPeriodic ==
  /\ pc = "reporter" /\ now < MaxNow
  /\ LET r == startPeriodicUpdates(ctx, updateInterval, intervals, now) IN
     /\ updateInterval' = r.updateInterval
     /\ intervals' = r.intervals
     /\ \E apiOk \in ApiOutcomes :
          held' = IF r.published
                  THEN updateComment(ctx, tasks, overallStatus, held, apiOk)
                  ELSE held
     /\ lastPublish' = IF r.published
                       THEN generateCommentBody(tasks, overallStatus)
                       ELSE lastPublish
     /\ call' = [op |-> "startPeriodicUpdates", published |-> r.published,
                 threw |-> FALSE]
  /\ now' = now + 1
  /\ UNCHANGED <<reporterFrame, pc, tasks, overallStatus, endTime>>

\* commentManager.stopPeriodicUpdates()
StopPeriodic ==
  /\ pc = "reporter" /\ now < MaxNow
  /\ LET r == stopPeriodicUpdates(updateInterval, intervals) IN
     /\ updateInterval' = r.updateInterval
     /\ intervals' = r.intervals
  /\ call' = [op |-> "stopPeriodicUpdates", threw |-> FALSE]
  /\ now' = now + 1
  /\ UNCHANGED <<reporterFrame, pc, tasks, overallStatus, endTime, held,
                 lastPublish>>

\* a live timer fires: the callback given to setInterval runs
TimerTick ==
  /\ pc = "reporter" /\ now < MaxNow
  /\ \E h \in intervals :
       /\ \E apiOk \in ApiOutcomes :
            held' = IF TickPublishes(overallStatus)
                    THEN updateComment(ctx, tasks, overallStatus, held, apiOk)
                    ELSE held
       /\ lastPublish' = IF TickPublishes(overallStatus)
                         THEN generateCommentBody(tasks, overallStatus)
                         ELSE lastPublish
       /\ call' = [op |-> "tick", timer |-> h,
                   published |-> TickPublishes(overallStatus), threw |-> FALSE]
  /\ now' = now + 1
  /\ UNCHANGED <<reporterFrame, pc, tasks, overallStatus, endTime, updateInterval,
                 intervals>>

NextReporter ==
  \/ CreateReporter
  \/ SetTaskStatus
  \/ SetOverallStatus
  \/ StartPeriodic
  \/ StopPeriodic
  \/ TimerTick

SpecReporter == InitReporter /\ [][NextReporter]_vars

\* a run has created the reporter in PR mode with a comment id
InitPeriodic ==
  /\ env = [USTA_PR_MODE |-> "", USTA_PR_NUMBER |-> <<>>, USTA_PR_BRANCH |-> "",
            USTA_COMMENT_ID |-> ""]
  /\ ctx = [number |-> 12, branch |-> "b", commentId |-> "c", isEnabled |-> TRUE]
  /\ doc \in ReporterDocs
  /\ repo = [dirty |-> {}, staged |-> {}, headDoc |-> doc, remote |-> NoRemote]
  /\ tasks = SeedTasks(getAllTasks(doc))
  /\ task = NoTask
  /\ pc = "periodic"
  /\ call = NoCall
  /\ NoRun
  /\ NoLookup

\* the variables neither the reporter nor a settling request touches
periodicFrame ==
  <<env, ctx, doc, repo, task, fsys, apiMayFail, tries, taskCompleted, capture,
    exitCode, rounds, ghosts, publishThrew>>

\* where the caller stands after "await updateComment()": it waits if a
\* request was sent
Awaiting(flight, next) ==
  IF \E r \in flight : r.awaited THEN next ELSE "periodic"

\* commentManager.startPeriodicUpdates(): the immediate updateComment is
\* not awaited
PeriodicStart ==
  /\ pc = "periodic" /\ now < MaxClock
  /\ LET r == startPeriodicUpdates(ctx, updateInterval, intervals, now) IN
     /\ updateInterval' = r.updateInterval
     /\ intervals' = r.intervals
     /\ inflight' = IF r.published
                    THEN sendComment(ctx, tasks, overallStatus, inflight, now, FALSE)
                    ELSE inflight
     /\ lastPublish' = IF r.published
                       THEN generateCommentBody(tasks, overallStatus)
                       ELSE lastPublish
     /\ call' = [op |-> "startPeriodicUpdates", published |-> r.published,
                 threw |-> FALSE]
  /\ now' = now + 1
  /\ UNCHANGED <<periodicFrame, pc, tasks, overallStatus, endTime, held>>

\* commentManager.stopPeriodicUpdates()
PeriodicStop ==
  /\ pc = "periodic" /\ now < MaxClock
  /\ LET r == stopPeriodicUpdates(updateInterval, intervals) IN
     /\ updateInterval' = r.updateInterval
     /\ intervals' = r.intervals
  /\ call' = [op |-> "stopPeriodicUpdates", threw |-> FALSE]
  /\ now' = now + 1
  /\ UNCHANGED <<periodicFrame, pc, tasks, overallStatus, endTime, held,
                 lastPublish, inflight>>

\* a live timer fires, also while the caller awaits a publish: the callback
\* calls updateComment without awaiting it
PeriodicTick ==
  /\ pc \in {"periodic", "awaiting", "concluding", "concluded"}
  /\ now < MaxClock
  /\ \E h \in intervals :
       call' = [op |-> "tick", timer |-> h,
                published |-> TickPublishes(overallStatus), threw |-> FALSE]
  /\ inflight' = IF TickPublishes(overallStatus)
                 THEN sendComment(ctx, tasks, overallStatus, inflight, now, FALSE)
                 ELSE inflight
  /\ lastPublish' = IF TickPublishes(overallStatus)
                    THEN generateCommentBody(tasks, overallStatus)
                    ELSE lastPublish
  /\ now' = now + 1
  /\ UNCHANGED <<periodicFrame, pc, tasks, overallStatus, endTime, held,
                 updateInterval, intervals>>

\* run-usta.ts:79-80, 171-172: updateTaskStatus, then await updateComment()
PeriodicTaskStatus ==
  /\ pc = "periodic" /\ now < MaxClock
  /\ \E id \in PeriodicIds, status \in PeriodicStatuses :
       /\ tasks' = updateTaskStatus(tasks, id, status, Unset, now)
       /\ call' = [op |-> "updateTaskStatus", id |-> id, status |-> status,
                   threw |-> FALSE]
  /\ inflight' = sendComment(ctx, tasks', overallStatus, inflight, now, TRUE)
  /\ lastPublish' = generateCommentBody(tasks', overallStatus)
  /\ pc' = Awaiting(inflight', "awaiting")
  /\ now' = now + 1
  /\ UNCHANGED <<periodicFrame, overallStatus, endTime, held, updateInterval,
                 intervals>>

\* run-usta.ts:200-201, 214-215: setOverallStatus, then await
\* updateComment(): the final report
Conclude ==
  /\ pc = "periodic" /\ now < MaxClock
  /\ \E status \in OverallStatuses \ {"running"} :
       /\ overallStatus' = status
       /\ endTime' = setOverallStatus(endTime, status, now)
       /\ call' = [op |-> "setOverallStatus", status |-> status, threw |-> FALSE]
  /\ inflight' = sendComment(ctx, tasks, overallStatus', inflight, now, TRUE)
  /\ lastPublish' = generateCommentBody(tasks, overallStatus')
  /\ pc' = IF Awaiting(inflight', "concluding") = "concluding"
           THEN "concluding" ELSE "concluded"
  /\ now' = now + 1
  /\ UNCHANGED <<periodicFrame, tasks, held, updateInterval, intervals>>

\* the curl process of a request exits: the request reaches the target, in
\* any order with the other requests in flight; the awaiting caller goes on
Settle ==
  /\ \E r \in inflight, apiOk \in ApiOutcomes :
       /\ held' = IF apiOk THEN r.body ELSE held
       /\ inflight' = inflight \ {r}
       /\ pc' = IF ~r.awaited THEN pc
                ELSE IF pc = "concluding" THEN "concluded" ELSE "periodic"
       /\ call' = [op |-> "settle", at |-> r.at, threw |-> FALSE]
  /\ UNCHANGED <<periodicFrame, tasks, overallStatus, endTime, lastPublish,
                 updateInterval, intervals, now>>

NextPeriodic ==
  \/ PeriodicStart
  \/ PeriodicStop
  \/ PeriodicTick
  \/ PeriodicTaskStatus
  \/ Conclude
  \/ Settle

SpecPeriodic == InitPeriodic /\ [][NextPeriodic]_vars

SpecParse == InitParse /\ [][NextParse]_vars

SpecPR == InitPR /\ [][NextPR]_vars

\* ------------------------------------------------------------------------
\* Claims
\* ------------------------------------------------------------------------

\* the reporter's entry for the task in work (looked up by id, as the code does)
CurrentProgress == tasks[FindProgress(tasks, task.id)]

\* the document line of the task in work is checked in the working tree
LineChecked(lines, i) == TaskMatch(lines[i]) /\ MatchCompleted(lines[i]) = "x"

\* C1: for every task and every run at most 3 work/verify attempts are started
\* for that task; the attempt counter only takes the values 1, 2, 3.
C1_AtMostThreeAttempts ==
  /\ tries \in 0..MaxTries
  /\ \A i \in DOMAIN attemptsOf : attemptsOf[i] <= MaxTries

\* the attempts of this outer iteration so far: verification failed on every
\* attempt but the last, and succeeded on the last
FailsThenPass ==
  /\ verdicts # <<>>
  /\ verdicts[Len(verdicts)] = "pass"
  /\ \A i \in 1..(Len(verdicts) - 1) : verdicts[i] = "fail"

\* the task in work has ended completed on attempt k after k - 1 rollbacks
CompletedOnAttempt(k) ==
  /\ taskCompleted
  /\ CurrentProgress.status = "completed"
  /\ CurrentProgress.completedOnAttempt = k
  /\ roundRollbacks = k - 1

C3_ThreeAttemptsThenFailed ==
  (pc = "exited" /\ task # NoTask /\ verdicts # <<>>
      /\ \A i \in 1..Len(verdicts) : verdicts[i] # "pass")
    => /\ tries = MaxTries
       /\ roundRollbacks >= MaxTries
       /\ CurrentProgress.status = "failed"
       /\ overallStatus = "failed"
       /\ exitCode = 1

\* C4: an attempt is treated as successful if and only if the output captured
\* in that attempt's verification run contains the marker: the verdict of the
\* verification run is success exactly when its capture holds the marker, and
\* the "Complete task" commit, the completed status and markComplete only ever
\* follow such a capture.
C4_MarkerIsTheOnlySuccessSignal ==
  [][/\ (pc = "test" /\ pc' = "commit") => Includes(capture', Marker)
     /\ (pc = "test" /\ pc' = "rollback") => ~Includes(capture', Marker)
     /\ (completeCommits' # completeCommits \/ (~taskCompleted /\ taskCompleted'))
          => (pc = "commit" /\ Includes(capture, Marker))
     /\ (task # NoTask /\ tasks' # tasks /\ FindProgress(tasks, task.id) # 0
           /\ CurrentProgress.status # "completed"
           /\ tasks'[FindProgress(tasks, task.id)].status = "completed")
          => (pc = "commit" /\ Includes(capture, Marker))
     /\ (markCalls' # markCalls) => (taskCompleted /\ completeCommits[task.line] >= 1)
    ]_vars

\* a second attempt whose verification output holds the marker, split over
\* two chunks, goes to the "Complete task" commit after a first attempt failed
C4_Witness ==
  /\ pc = "commit" /\ capture = <<"reason", "__TASK_TEST_", "COMPLETED__">>
  /\ verdicts = <<"fail", "pass">>

\* C5: at the start of every attempt the working tree equals the last commit:
\* the rollback has discarded every uncommitted change of the failed attempt,
\* the files it created included.
C5_CleanBaseline ==
  (pc = "work" /\ tries >= 2) => (repo.dirty = {} /\ repo.staged = {})

\* the task in work, if there is one
InWork == pc \in {"retry", "work", "test", "commit", "rollback", "catch"}

\* C6: when a task has used its 3 attempts the orchestrator sets the task to
\* failed and the overall status to failed, publishes the final report and
\* exits non-zero in that order; nothing is started, committed or marked
\* afterwards and every other task keeps the status it had.
C6_FailFast ==
  [][/\ pc \notin {"exited", "done"}
     /\ (pc = "retry" /\ tries >= MaxTries /\ ~taskCompleted)
          => (overallStatus' = "failed" /\ pc' = "exited")
     /\ (overallStatus # "failed" /\ overallStatus' = "failed")
          => LET k == FindProgress(tasks, task.id) IN
             /\ pc = "retry" /\ tries = MaxTries /\ ~taskCompleted
             /\ tasks'[k].status = "failed"
             /\ \A j \in 1..Len(tasks) : j # k => tasks'[j] = tasks[j]
             /\ lastPublish' = generateCommentBody(tasks', "failed")
             /\ (ctx.isEnabled /\ ctx.commentId # "" /\ ~apiMayFail)
                  => held' = generateCommentBody(tasks', "failed")
             /\ exitCode' = 1 /\ pc' = "exited"
             /\ UNCHANGED <<doc, repo, task, attemptsOf, markCalls, completeCommits>>
    ]_vars

\* the first task has used its 3 attempts: it is failed, the report the
\* target holds says so, the later task is still pending and unstarted
C6_Witness ==
  /\ pc = "exited" /\ exitCode = 1 /\ tries = MaxTries
  /\ overallStatus = "failed"
  /\ Len(tasks) = 2
  /\ tasks[1].status = "failed" /\ tasks[2].status = "pending"
  /\ ctx.commentId # ""
  /\ held = generateCommentBody(tasks, "failed")

\* C7: the task in work is always the first incomplete task of the document,
\* so no attempt starts for a task before every earlier task is marked complete.
C7_FirstIncompleteInWork ==
  (InWork /\ task # NoTask) => task = getNextTask(doc)

\* C8: markComplete is called exactly once per completed task and only after
\* the "Complete task" commit-and-push returned; the document is never written
\* in any other way.
C8_MarkOncePerCompletedTask ==
  [][/\ doc' # doc => /\ pc = "retry" /\ taskCompleted
                      /\ doc' = markTaskAsCompleted(doc, task.id)
     /\ \A i \in DOMAIN markCalls :
          markCalls'[i] <= 1 /\ markCalls'[i] <= completeCommits'[i]
    ]_vars

\* C9: an error of the agent run, of a commit-and-push (the "Before starting
\* task" one included) or of the rollback never ends the run before the 3
\* attempts are used: the outer handler is only ever reached from markComplete.
C9_ErrorsCaughtAtAttemptBoundary ==
  (pc = "outerCatch" /\ task # NoTask)
    => (taskCompleted /\ MarkTarget(doc, task.id) = 0)

\* C10: a checkbox that is checked in the document stays checked for the rest
\* of the run.
C10_CheckedStaysChecked ==
  [][\A i \in 1..Len(doc) : LineChecked(doc, i) => LineChecked(doc', i)]_vars

\* the context lets updateComment call the GitHub API
Publishes == ctx.isEnabled /\ ctx.commentId # ""

\* C11: a failure of publish is swallowed and never thrown: no updateComment
\* call rejects, a failed call only leaves the target with the body it held,
\* and so the step a run takes (agent run, commit, rollback, markComplete,
\* exit) is the one it takes when the call succeeds.
C11_PublishFailureSwallowed ==
  [][/\ ~publishThrew'
     /\ held' \in {held, generateCommentBody(tasks', overallStatus')}
    ]_vars

\* every publish call of a run failed (the target holds no body) and the run
\* has completed its task, marked it and ended with exit code 0
C11_Witness ==
  /\ Publishes /\ apiMayFail
  /\ held = NoBody /\ lastPublish # NoBody
  /\ pc = "done" /\ exitCode = 0
  /\ \E i \in DOMAIN markCalls : markCalls[i] = 1

\* C12: while the PR context is disabled or has no commentId, no publish call
\* sends anything to the external target (the initial publish of a new
\* reporter included) and none fails, whatever status updates precede it.
C12_PublishNoOpWithoutTarget ==
  ~Publishes => (held = NoBody /\ ~publishThrew)

\* a run in PR mode without a comment id has reported several status changes
\* and completed, and the target has received nothing
C12_Witness ==
  /\ ctx.isEnabled /\ ctx.commentId = ""
  /\ pc = "done"
  /\ lastPublish = generateCommentBody(tasks, "completed")
  /\ \E i \in 1..Len(tasks) : tasks[i].completedOnAttempt = 2
  /\ held = NoBody

\* the text has an integer in front (after white space and a sign) and that
\* integer is not zero
ParsesToNonZero(s) ==
  LET start == IndexOfNot(s, Whitespace, 1)
      first == IF start <= Len(s) /\ s[start] \in {"-", "+"} THEN start + 1 ELSE start
      last == IndexOfNot(s, Digits, first) - 1 IN
  \E i \in first..last : s[i] # "0"

\* C13: getPRContext returns isEnabled = true if and only if the flag is
\* exactly "true", the PR number parses to a non-zero integer and the branch is
\* not empty; otherwise it returns isEnabled = false with number 0 and an empty
\* branch; it never throws.
C13_ContextEnabledIff ==
  pc = "resolved" =>
    LET ok == /\ env.USTA_PR_MODE = "true"
              /\ ParsesToNonZero(env.USTA_PR_NUMBER)
              /\ env.USTA_PR_BRANCH # "" IN
    /\ ~call.threw
    /\ ctx.isEnabled <=> ok
    /\ ok => /\ ctx.number # 0
             /\ ctx.branch = env.USTA_PR_BRANCH
             /\ ctx.commentId = env.USTA_COMMENT_ID
    /\ ~ok => (ctx.number = 0 /\ ctx.branch = "")

\* the flag is "true", the number "1a" parses to 1, the branch is set: enabled
C13_Witness ==
  /\ pc = "resolved"
  /\ env.USTA_PR_MODE = "true"
  /\ env.USTA_PR_NUMBER = <<"1", "a">>
  /\ env.USTA_PR_BRANCH = "b"
  /\ ctx.isEnabled /\ ctx.number = 1

\* a "Before starting task" or "Complete task" commit-and-push has returned
CommitAndPushReturned ==
  \/ pc = "loop" /\ pc' = "retry"
  \/ pc = "commit" /\ pc' = "retry"

\* C14: commit-and-push pushes if and only if the PR context of the run is
\* enabled: with a disabled context no step ever pushes, with an enabled one
\* every commit-and-push that returns has pushed HEAD.
C14_PushIffContextEnabled ==
  [][/\ ~ctx.isEnabled => repo'.remote = NoRemote
     /\ (ctx.isEnabled /\ CommitAndPushReturned)
          => repo'.remote = [doc |-> repo'.headDoc, pushed |-> TRUE]
    ]_vars

\* the flag is set but the PR number is missing: a task has been committed
\* as complete and nothing was pushed
C14_Witness ==
  /\ env.USTA_PR_MODE = "true" /\ env.USTA_PR_BRANCH = "b" /\ ~ctx.isEnabled
  /\ \E i \in DOMAIN completeCommits : completeCommits[i] = 1
  /\ repo.headDoc = doc /\ repo.dirty = {}
  /\ repo.remote = NoRemote

\* the process has ended
Ended == pc \in {"done", "exited"}

\* every task of the document is marked complete
AllMarked(lines) ==
  \A i \in 1..Len(getAllTasks(lines)) : getAllTasks(lines)[i].completed

\* the run ended before the reporter was created: the configuration was
\* invalid or the specification was not found
StartupFailed == pc \in {"outerCatch", "exited"} /\ tasks = <<>>

\* C15: the exit code is zero exactly when the run ends with every task of the
\* document marked complete, and non-zero when a task has used up its
\* attempts, when the specification is not found and when the configuration
\* is invalid.
C15_ExitCode ==
  /\ ~Ended => exitCode = -1
  /\ Ended => exitCode \in {0, 1}
  /\ (Ended /\ exitCode = 0) => (AllMarked(doc) /\ ~StartupFailed)
  /\ (Ended /\ ~StartupFailed /\ AllMarked(doc)) => exitCode = 0
  /\ (Ended /\ StartupFailed) => exitCode = 1
  /\ (Ended /\ task # NoTask /\ tries = MaxTries /\ ~taskCompleted) => exitCode = 1

\* a run has completed both tasks of the document and ended with exit code 0
C15_Witness ==
  /\ pc = "done" /\ exitCode = 0
  /\ Len(getAllTasks(doc)) = 2 /\ AllMarked(doc)
  /\ \A i \in 2..3 : markCalls[i] = 1

\* C16: the overall status is set to completed, and then published, exactly
\* when getNextTask returns none: it is never completed while the document
\* has an incomplete task, and a document without an incomplete task at the
\* start leads to completed with no agent run, commit or rollback.
C16_CompletedIffNoTaskLeft ==
  /\ overallStatus = "completed" <=> pc = "done"
  /\ (pc = "loop" /\ task = NoTask) => (getNextTask(doc) = NoTask /\ ENABLED Finish)
  /\ pc = "done" =>
       /\ task = NoTask /\ AllMarked(doc)
       /\ lastPublish = generateCommentBody(tasks, "completed")
       /\ (Publishes /\ ~apiMayFail) => held = lastPublish
  /\ (pc = "done" /\ rounds = 0) =>
       /\ \A i \in DOMAIN attemptsOf : attemptsOf[i] = 0 /\ completeCommits[i] = 0
       /\ roundRollbacks = 0
       /\ repo = [dirty |-> {}, staged |-> {}, headDoc |-> doc, remote |-> NoRemote]

\* a document whose tasks are all checked at the start: the run is completed,
\* the report says so, and nothing was run or committed
C16_Witness ==
  /\ pc = "done" /\ rounds = 0 /\ overallStatus = "completed"
  /\ Publishes /\ held = generateCommentBody(tasks, "completed")
  /\ Len(tasks) >= 1
  /\ repo.headDoc = doc /\ repo.remote = NoRemote

\* the ids of the tasks that parseTasks reports as incomplete
IncompleteIds(lines) ==
  {getAllTasks(lines)[k].id :
     k \in {j \in 1..Len(getAllTasks(lines)) : ~getAllTasks(lines)[j].completed}}

CompletedCount(all) == Cardinality({k \in 1..Len(all) : all[k].completed})

\* what follows the first closing bracket of a line
AfterBracket(line) == SubSeq(line, IndexOfAny(line, {"]"}, 1) + 1, Len(line))

\* new is old but for one line, whose checkbox alone has changed, to "[x]"
OneCheckboxFlipped(old, new) ==
  /\ Len(new) = Len(old)
  /\ \E i \in 1..Len(old) :
       /\ \A j \in 1..Len(old) : j # i => new[j] = old[j]
       /\ new[i] # old[i]
       /\ StartsWith(new[i], <<"-", " ", "[", "x", "]">>)
       /\ AfterBracket(new[i]) = AfterBracket(old[i])

\* C17: round trip: for every document and every id of a task that parse
\* reports as incomplete, parse; markComplete(id); parse yields exactly one
\* more completed task, the same tasks in the same order, and a document whose
\* lines are those of the original but for the one flipped checkbox.
C17_MarkRoundTrip ==
  (pc = "marked" /\ call.id \in IncompleteIds(repo.headDoc)) =>
    LET orig == getAllTasks(repo.headDoc)
        new == getAllTasks(doc) IN
    /\ ~call.threw
    /\ Len(new) = Len(orig)
    /\ \A k \in 1..Len(orig) :
         /\ new[k].id = orig[k].id
         /\ new[k].title = orig[k].title
         /\ new[k].line = orig[k].line
    /\ CompletedCount(new) = CompletedCount(orig) + 1
    /\ OneCheckboxFlipped(repo.headDoc, doc)

\* C18: markComplete(id) with the id of a task that is already complete, or
\* of no task, fails with an error and leaves the document unchanged.
C18_MarkRejectsOtherIds ==
  (pc = "marked" /\ call.id \notin IncompleteIds(repo.headDoc)) =>
    (call.threw /\ doc = repo.headDoc)

\* C19: getNextTask returns the first task, in flattened document order,
\* that is not completed, skipping every completed task in front of it, and
\* none if and only if every task is completed.
C19_NextIsFirstIncomplete ==
  pc \in {"parsed", "reparsed"} =>
    LET all == getAllTasks(doc) IN
    /\ task = NoTask <=> \A k \in 1..Len(all) : all[k].completed
    /\ task # NoTask =>
         \E k \in 1..Len(all) :
           /\ all[k] = task
           /\ ~all[k].completed
           /\ \A j \in 1..(k - 1) : all[j].completed

\* the first task of the document is complete and getNextTask has returned
\* the second one
C19_Witness ==
  /\ pc = "parsed"
  /\ Len(getAllTasks(doc)) = 2
  /\ getAllTasks(doc)[1].completed
  /\ task = getAllTasks(doc)[2]

\* the lines of a document that are checkbox bullets
BulletLines(lines) == {i \in 1..Len(lines) : TaskMatch(lines[i])}

\* C20: getAllTasks returns one task per checkbox bullet line of the
\* document, in the order of the bullets: none is dropped, doubled or moved.
C20_OneTaskPerBullet ==
  pc = "parsed" =>
    LET all == getAllTasks(doc) IN
    /\ Len(all) = Cardinality(BulletLines(doc))
    /\ \A k \in 1..Len(all) : all[k].line \in BulletLines(doc)
    /\ \A j, k \in 1..Len(all) : j < k => all[j].line < all[k].line

\* C21: getTaskProgress returns completed = the number of completed tasks,
\* total = the number of tasks and, for total > 0, percentage = the integer
\* nearest to 100 * completed / total; for total = 0 it returns percentage 0
\* and completed 0; the percentage is always within 0..100.
C21_Progress ==
  pc = "progress" =>
    LET all == getAllTasks(doc)
        r == call.result
        off == 100 * r.completed - r.percentage * r.total IN
    /\ ~call.threw
    /\ r.completed = CompletedCount(all)
    /\ r.total = Len(all)
    /\ r.total > 0 => (2 * off <= r.total /\ 2 * (0 - off) <= r.total)
    /\ r.total = 0 => (r.percentage = 0 /\ r.completed = 0)
    /\ r.percentage \in 0..100

\* two of three tasks are complete: 67 percent
C21_Witness ==
  /\ pc = "progress"
  /\ call.result = [completed |-> 2, total |-> 3, percentage |-> 67]

\* C22: getTaskById returns the first task in flattened order whose id equals
\* the given id exactly (never one whose id or title merely contains it), and
\* none when no task has that id; with duplicate ids the earliest task wins.
C22_LookupExact ==
  pc = "lookup" =>
    LET all == getAllTasks(doc)
        r == call.result IN
    /\ ~call.threw
    /\ r = NoTask <=> \A k \in 1..Len(all) : all[k].id # call.id
    /\ r # NoTask =>
         \E k \in 1..Len(all) :
           /\ all[k] = r
           /\ r.id = call.id
           /\ \A j \in 1..(k - 1) : all[j].id # call.id

\* task 10 stands in front of task 1: the lookup of "1" returns task 1
C22_Witness ==
  /\ pc = "lookup"
  /\ call.id = <<"1">>
  /\ Len(getAllTasks(doc)) = 2
  /\ getAllTasks(doc)[1].id = <<"1", "0">>
  /\ call.result = getAllTasks(doc)[2]

\* the name has no path separator in it
BareName(name) == ~Includes(name, <<"/">>) /\ ~Includes(name, <<"\\">>)

\* the directories of the specs root, as a set
DirectorySet == {fsys.entries[i].name : i \in {j \in 1..Len(fsys.entries) : fsys.entries[j].isDir}}

\* the directories whose name, case set aside, contains the term or is
\* contained in it
SubstringMatches(term) ==
  {d \in DirectorySet : \/ Includes(toLowerCase(d), toLowerCase(term))
                        \/ Includes(toLowerCase(term), toLowerCase(d))}

\* C23: fuzzy resolution of a bare name (its extension stripped) against the
\* subdirectories of the specs root: an exact match is returned first, then a
\* case-insensitive one; otherwise exactly one substring match resolves to
\* that directory, two or more fail with an error that names all candidates,
\* none fails with not-found; a missing name fails with the required-name
\* error.
C23_FuzzyResolution ==
  (pc = "located" /\ BareName(call.name) /\ fsys.root # "EACCES") =>
    LET r == call.result
        term == StripExtension(call.name)
        sameButCase == {d \in DirectorySet : toLowerCase(d) = toLowerCase(term)} IN
    IF call.name = <<>>
    THEN r.threw /\ r.error = "spec_name input is required"
    ELSE IF term \in DirectorySet
    THEN ~r.threw /\ r.location = [root |-> "specs", name |-> term]
    ELSE IF sameButCase # {}
    THEN ~r.threw /\ r.location.root = "specs" /\ r.location.name \in sameButCase
    ELSE IF Cardinality(SubstringMatches(term)) = 1
    THEN ~r.threw /\ r.location.root = "specs"
         /\ r.location.name \in SubstringMatches(term)
    ELSE IF Cardinality(SubstringMatches(term)) >= 2
    THEN /\ r.threw /\ r.error = "Multiple specs found"
         /\ {r.candidates[i] : i \in 1..Len(r.candidates)} = SubstringMatches(term)
    ELSE r.threw /\ r.error = "Spec not found"

\* "au" is in "auth-v2" and in "oauth" and no directory is called "au": the
\* call fails and names both
C23_Witness ==
  /\ pc = "located"
  /\ call.name = <<"a", "u">>
  /\ DirectorySet = {<<"a", "u", "t", "h", "-", "v", "2">>, <<"o", "a", "u", "t", "h">>}
  /\ call.threw
  /\ Len(call.result.candidates) = 2

\* the text of a bullet: what follows the checkbox and the blank behind it
BulletText(line) == SubSeq(AfterBracket(line), 2, Len(AfterBracket(line)))

\* the text begins with digits followed by ". "
BeginsWithNumber(text) ==
  \E n \in 1..Len(text) :
    /\ \A i \in 1..n : text[i] \in Digits
    /\ n + 2 <= Len(text)
    /\ text[n + 1] = "." /\ text[n + 2] = " "

\* the digits the text begins with
LeadingDigits(text) ==
  SubSeq(text, 1, CHOOSE n \in 0..Len(text) :
                    /\ \A i \in 1..n : text[i] \in Digits
                    /\ (n < Len(text) => text[n + 1] \notin Digits))

\* the first whitespace-delimited word of the text
FirstWordOf(text) ==
  LET from == IndexOfNot(text, Whitespace, 1) IN
  SubSeq(text, from, IndexOfAny(text, Whitespace, from) - 1)

\* C24: for every task bullet, if the text after the checkbox begins with
\* digits followed by ". ", the id is those digits and the title is the full
\* text; otherwise the id is the first whitespace-delimited word of the text
\* and the title is the full text; completed is true exactly when the
\* checkbox holds an x.
C24_IdTitleCompleted ==
  pc = "parsed" =>
    \A k \in 1..Len(getAllTasks(doc)) :
      LET t == getAllTasks(doc)[k]
          line == doc[t.line]
          text == BulletText(line) IN
      /\ t.id = IF BeginsWithNumber(text) THEN LeadingDigits(text) ELSE FirstWordOf(text)
      /\ t.title = text
      /\ t.completed <=> (\E i \in 4..(IndexOfAny(line, {"]"}, 1) - 1) : line[i] = "x")

\* the first line behind line i that is a task bullet or a section heading;
\* Len(lines) + 1 if the document ends first
ClosingLine(lines, i) ==
  LET closers == {j \in (i + 1)..Len(lines) :
                    IsSectionHeader(lines[j]) \/ TaskMatch(lines[j])} IN
  IF closers = {} THEN Len(lines) + 1
  ELSE CHOOSE j \in closers : \A m \in closers : j <= m

\* the indented lines between the bullet at line i and the line that closes
\* the task, trimmed, in their order
IndentedLines(lines, i) ==
  LET IsIndented(l) == StartsWith(l, <<" ", " ">>)
      picked == SelectSeq(SubSeq(lines, i + 1, ClosingLine(lines, i) - 1), IsIndented) IN
  [m \in 1..Len(picked) |-> Trim(picked[m])]

IsRequirementsLine(l) == StartsWith(l, ReqPrefix)

IsSubtaskLine(l) ==
  /\ ~IsRequirementsLine(l)
  /\ StartsWith(l, <<"-", " ">>) /\ (Len(l) < 3 \/ l[3] # "_")

IsDescriptionLine(l) == ~IsRequirementsLine(l) /\ ~IsSubtaskLine(l) /\ l # <<>>

\* the lines joined by newlines
RECURSIVE JoinLines(_)
JoinLines(ls) ==
  IF ls = <<>> THEN <<>>
  ELSE IF Len(ls) = 1 THEN ls[1]
  ELSE ls[1] \o <<"\n">> \o JoinLines(Tail(ls))

\* C25: each indented line after a task bullet is folded into that task by
\* exactly one rule, in priority order: a "_Requirements: a, b_" line sets the
\* requirements to the comma-split trimmed items; a "- " bullet that does not
\* start with an underscore is appended to the subtasks; any other non-empty
\* line is appended to the description. A requirements line never appears in
\* the subtasks, and the task is closed only by the next task bullet, the
\* next section heading or the end of the input.
C25_FoldedLines ==
  pc = "parsed" =>
    \A k \in 1..Len(getAllTasks(doc)) :
      LET t == getAllTasks(doc)[k]
          ls == IndentedLines(doc, t.line)
          reqs == SelectSeq(ls, IsRequirementsLine)
          subs == SelectSeq(ls, IsSubtaskLine)
          descs == SelectSeq(ls, IsDescriptionLine) IN
      /\ t.requirements = IF reqs = <<>> THEN <<>> ELSE Requirements(reqs[Len(reqs)])
      /\ \A m \in 1..Len(t.requirements) :
           /\ t.requirements[m] = Trim(t.requirements[m])
           /\ ~Includes(t.requirements[m], <<",">>)
      /\ t.subtasks = [m \in 1..Len(subs) |-> SubSeq(subs[m], 3, Len(subs[m]))]
      /\ \A m \in 1..Len(t.subtasks) : ~StartsWith(t.subtasks[m], <<"_">>)
      /\ t.description = JoinLines(descs)

\* a task bullet with a subtask and a requirements line, closed by the next
\* task: subtasks = ["s"], requirements = ["1", "2"], no description
C25_Witness ==
  /\ pc = "parsed"
  /\ Len(doc) = 5
  /\ doc[3] = <<" ", " ", "-", " ", "s">>
  /\ doc[4] = <<" ", " ", "_", "R", "e", "q", "u", "i", "r", "e", "m", "e", "n", "t", "s", ":", " ", "1", ",", " ", "2", "_">>
  /\ Len(getAllTasks(doc)) = 2
  /\ getAllTasks(doc)[1].subtasks = <<<<"s">>>>
  /\ getAllTasks(doc)[1].requirements = <<<<"1">>, <<"2">>>>
  /\ getAllTasks(doc)[1].description = <<>>
  /\ getAllTasks(doc)[2].subtasks = <<>>

\* C26: preparePrompt and createManualTestPrompt fail with a task-not-found
\* error, writing nothing, when getTaskById yields none; otherwise each
\* writes its whole text before it returns an address determined by the task
\* id, and the work prompt and the verification prompt of the same task get
\* distinct addresses.
C26_PromptsStaged ==
  pc \in {"prompted", "testPrompted"} =>
    LET all == getAllTasks(doc)
        known == \E k \in 1..Len(all) : all[k].id = call.id
        kind == IF pc = "prompted" THEN "work" ELSE "test" IN
    /\ ~known => (call.threw /\ call.error = "Task not found" /\ fsys.tmp = {})
    /\ known =>
         /\ ~call.threw
         /\ \E f \in fsys.tmp :
              /\ f.path = call.path
              /\ f.text.kind = kind
              /\ f.text.title = getTaskById(doc, call.id).title
         /\ Includes(call.path, call.id)
         /\ pc = "testPrompted" => Cardinality(fsys.tmp) = 2

\* the reporter has just been created: by runUsta, or on its own
Created ==
  \/ pc = "start" /\ pc' = "loop"
  \/ pc = "tasks" /\ pc' = "reporter"

\* C27: createCommentManager seeds exactly one TaskProgress per task of the
\* task list, in the same order, with status completed if and only if the
\* task's checkbox was already checked and pending otherwise, attempt = 1 and
\* overall status running; it publishes an initial report if and only if the
\* context is enabled.
C27_CreateSeeds ==
  [][Created =>
       LET all == getAllTasks(doc) IN
       /\ Len(tasks') = Len(all)
       /\ \A i \in 1..Len(all) :
            /\ tasks'[i].taskId = all[i].id
            /\ tasks'[i].title = all[i].title
            /\ tasks'[i].status = "completed" <=> LineChecked(doc, all[i].line)
            /\ tasks'[i].status = "pending" <=> ~LineChecked(doc, all[i].line)
            /\ tasks'[i].attempt = 1
       /\ overallStatus' = "running"
       /\ ctx.isEnabled <=> lastPublish' = generateCommentBody(tasks', "running")
       /\ ~ctx.isEnabled => (lastPublish' = NoBody /\ held' = NoBody)
       /\ (ctx.isEnabled /\ ctx.commentId # "" /\ ~apiMayFail) => held' = lastPublish'
    ]_vars

\* a run in PR mode has created the reporter for a document whose first task
\* is checked: completed and pending entries, and the target holds the report
C27_Witness ==
  /\ pc = "loop" /\ rounds = 0
  /\ ctx.isEnabled
  /\ Len(tasks) = 2
  /\ tasks[1].status = "completed" /\ tasks[2].status = "pending"
  /\ tasks[1].attempt = 1 /\ tasks[2].attempt = 1
  /\ overallStatus = "running"
  /\ held = generateCommentBody(tasks, "running")

\* the step is a call of updateTaskStatus on a reporter on its own
StatusCall == pc = "reporter" /\ now' # now /\ call'.op = "updateTaskStatus"

\* C28: updateTaskStatus with a task id that is not in the reporter changes
\* nothing: every TaskProgress, the overall status and all timestamps are
\* left unchanged and no error is raised; with a known id it changes only
\* that task's entry.
C28_UnknownIdNoOp ==
  [][StatusCall =>
       LET known == {i \in 1..Len(tasks) : tasks[i].taskId = call'.id} IN
       /\ ~call'.threw
       /\ overallStatus' = overallStatus /\ endTime' = endTime
       /\ held' = held /\ lastPublish' = lastPublish
       /\ Len(tasks') = Len(tasks)
       /\ known = {} => tasks' = tasks
       /\ known # {} =>
            \E i \in known :
              /\ \A j \in 1..Len(tasks) : j # i => tasks'[j] = tasks[j]
              /\ tasks'[i].status = call'.status
    ]_vars

\* a task has been set to working and then a call with an id no task has
\* was made: the entries are as they were
C28_Witness ==
  /\ pc = "reporter"
  /\ call.op = "updateTaskStatus" /\ call.id = <<"9">> /\ call.status = "failed"
  /\ \E i \in 1..Len(tasks) : tasks[i].status = "working" /\ tasks[i].startTime # Unset
  /\ \A i \in 1..Len(tasks) : tasks[i].status # "failed" /\ tasks[i].endTime = Unset

\* C29: the reporter's timestamps are write-once over any sequence of status
\* calls: a task's startTime is stamped by the first transition to working
\* and never changed by later ones, its endTime by the first transition to
\* completed or failed, and the run's endTime by the first overall status
\* other than running; no later call overwrites a stamped value.
C29_TimestampsWriteOnce ==
  [][/\ \A i \in 1..Len(tasks) :
          /\ tasks[i].startTime # Unset => tasks'[i].startTime = tasks[i].startTime
          /\ tasks[i].endTime # Unset => tasks'[i].endTime = tasks[i].endTime
          /\ (tasks[i].startTime = Unset /\ tasks'[i] # tasks[i])
               => tasks'[i].startTime =
                    IF tasks'[i].status = "working" THEN now ELSE Unset
          /\ (tasks[i].endTime = Unset /\ tasks'[i] # tasks[i])
               => tasks'[i].endTime =
                    IF tasks'[i].status \in {"completed", "failed"} THEN now ELSE Unset
     /\ endTime # Unset => endTime' = endTime
     /\ (endTime = Unset /\ pc = "reporter" /\ now' # now
           /\ call'.op = "setOverallStatus")
          => endTime' = IF overallStatus' # "running" THEN now ELSE Unset
     /\ (endTime = Unset /\ endTime' # Unset) => overallStatus' # "running"
    ]_vars

\* a task was set to working, completed and working again, at three times:
\* it keeps the first startTime and the endTime of the completion
C29_Witness ==
  /\ pc = "reporter"
  /\ \E i \in 1..Len(tasks) :
       /\ tasks[i].status = "working"
       /\ tasks[i].startTime # Unset
       /\ tasks[i].endTime = tasks[i].startTime + 1
       /\ now = tasks[i].startTime + 3

\* C30: at most one timer exists however often startPeriodicUpdates is
\* called; a timer tick starts a publish only while the overall status is
\* running; after stopPeriodicUpdates no timer is left to tick; and after
\* the overall status has left running no tick starts a publish.
C30_OneTimer ==
  [][/\ Cardinality(intervals') <= 1
     /\ intervals' = IF updateInterval' = Unset THEN {} ELSE {updateInterval'}
     /\ (pc = "reporter" /\ now' # now /\ call'.op = "stopPeriodicUpdates")
          => (intervals' = {} /\ updateInterval' = Unset)
     /\ (pc = "reporter" /\ now' # now /\ call'.op = "tick") =>
          /\ call'.timer \in intervals
          /\ call'.published <=> overallStatus = "running"
          /\ ~call'.published => (held' = held /\ lastPublish' = lastPublish)
    ]_vars

\* startPeriodicUpdates was called twice, the overall status was set to
\* failed, and the one timer has ticked without a publish
C30_Witness ==
  /\ pc = "reporter"
  /\ call.op = "tick" /\ ~call.published
  /\ overallStatus = "failed"
  /\ Cardinality(intervals) = 1
  /\ now = MaxNow
  /\ lastPublish = generateCommentBody(tasks, "running")

\* the changes of a task's reported status the state machine allows
StatusSteps ==
  {<<"pending", "working">>, <<"working", "testing">>,
   <<"testing", "completed">>, <<"testing", "working">>,
   <<"testing", "failed">>}

\* C31: every change of a task's reported status during a run follows
\* pending -> working -> testing -> {completed | working (retry) | failed}:
\* testing is entered only from working, completed and failed only from
\* testing, and no status change ever follows completed or failed.
C31_StatusMachine ==
  [][(tasks # <<>> /\ Len(tasks') = Len(tasks)) =>
       \A i \in 1..Len(tasks) :
         tasks'[i].status # tasks[i].status =>
           <<tasks[i].status, tasks'[i].status>> \in StatusSteps
    ]_vars

\* C32: for each task the commit-and-push labelled 'Before starting task' is
\* issued exactly once, before the first agent run of attempt 1 and after the
\* task is reported as working; it is never repeated before attempts 2 and 3,
\* so retries start from the state left by the rollback.
C32_BeforeCommitOnce ==
  [][/\ \A l \in DOMAIN beforeCommits' :
          /\ beforeCommits'[l] <= 1
          /\ attemptsOf'[l] > 0 => beforeCommits'[l] = 1
     /\ beforeCommits' # beforeCommits =>
          /\ attemptsOf[task.line] = 0 /\ tries' = 0
          /\ tasks'[FindProgress(tasks', task.id)].status = "working"
          /\ lastPublish' = generateCommentBody(tasks', overallStatus)
     /\ tries' > tries =>
          /\ beforeCommits' = beforeCommits
          /\ repo' = repo
          /\ (tries > 0 => roundRollbacks >= tries)
    ]_vars

\* the number of unchecked checkbox lines of a document
UncheckedLines(lines) ==
  Cardinality({i \in 1..Len(lines) : UncheckedMatch(lines[i])})

\* every agent run and git call of this outer iteration has returned
AllReturned ==
  /\ ~gitThrew
  /\ \A k \in 1..Len(verdicts) : verdicts[k] # "error"

\* C33: if every collaborator call (agent run, commit-and-push, rollback,
\* publish) returns, each outer iteration either ends the run or strictly
\* decreases the number of unchecked checkbox lines of the document, so the
\* loop terminates: the run reaches overall status completed or exits
\* non-zero after finitely many steps.
C33_IterationDecreases ==
  [][(pc = "retry" /\ pc' = "loop" /\ AllReturned) =>
       UncheckedLines(doc') < UncheckedLines(roundDoc)
    ]_vars

\* C34: within one run each task is worked to success at most once: after a
\* task's verification succeeds, the markComplete call issued with its id
\* flips the checkbox line of that very task, so nextIncomplete never returns
\* the same task again and no task gets two 'Complete task' cycles; for every
\* document, including ones with duplicate ids, an id inside another task's
\* title, or checkbox lines before the first section heading.
C34_MarkFlipsOwnLine ==
  [][/\ markCalls' # markCalls =>
          /\ Len(doc') = Len(doc)
          /\ \A i \in 1..Len(doc) : doc'[i] # doc[i] <=> i = task.line
          /\ LineChecked(doc', task.line)
          /\ task' = NoTask \/ task'.line # task.line
     /\ \A l \in DOMAIN completeCommits' :
          completeCommits'[l] <= 1 /\ markCalls'[l] <= 1
    ]_vars

\* C35: whenever the overall status is completed, every TaskProgress held by
\* the reporter has status completed (the report's X/Y counter shows X = Y),
\* and for every task the reporter status is completed whenever the task's
\* checkbox is checked in the document; for every document, including ones
\* with duplicate task ids.
C35_ReportAgreesWithDocument ==
  /\ overallStatus = "completed" =>
       /\ \A i \in 1..Len(tasks) : tasks[i].status = "completed"
       /\ Cardinality({k \in 1..Len(lastPublish.tasks) :
                         lastPublish.tasks[k][1] = "completed"})
            = Len(lastPublish.tasks)
  /\ tasks # <<>> =>
       LET all == getAllTasks(doc) IN
       /\ Len(tasks) = Len(all)
       /\ \A i \in 1..Len(all) :
            LineChecked(doc, all[i].line) => tasks[i].status = "completed"

\* the lines of the working tree's tasks.md whose checkbox is checked
CheckedLines(lines) == {i \in 1..Len(lines) : LineChecked(lines, i)}

\* C36: when a run ends with overall status completed, every checkbox flip
\* written by markComplete during the run is contained in a commit (and, in
\* PR mode, pushed): no completion mark, in particular that of the last
\* task, is left as an uncommitted working-tree change at the end of the run.
C36_MarksCommitted ==
  (pc = "done" /\ overallStatus = "completed") =>
    /\ CheckedLines(doc) \subseteq CheckedLines(repo.headDoc)
    /\ doc = repo.headDoc
    /\ (ctx.isEnabled /\ \E l \in DOMAIN markCalls : markCalls[l] > 0) =>
         /\ repo.remote.pushed
         /\ CheckedLines(doc) \subseteq CheckedLines(repo.remote.doc)

\* a verification of this outer iteration has shown the marker
MarkerSeen == \E k \in 1..Len(verdicts) : verdicts[k] = "pass"

\* C37: if an attempt's verification output contains the success marker, the
\* task is completed on that attempt: it is never rolled back or retried
\* afterwards, and at most one 'Complete task' commit is created per task,
\* also when the commit succeeds locally but the push fails.
C37_MarkerCompletes ==
  [][/\ pc = "commit" => (taskCompleted' /\ pc' = "retry")
     /\ MarkerSeen =>
          /\ roundRollbacks' <= roundRollbacks
          /\ tries' <= tries
     /\ roundCommits' <= 1
    ]_vars

\* C39: whenever the process ends after the reporter was created, the overall
\* status is no longer running and a final publish with that status was
\* issued before the end: every non-zero exit (task failure, markComplete
\* failure, rollback failure, failure of the 'Before starting task' commit)
\* leaves the report with overall status failed, never running.
C39_FinalStatusReported ==
  (Ended /\ ~StartupFailed) =>
    /\ overallStatus # "running"
    /\ lastPublish.overallStatus = overallStatus
    /\ exitCode # 0 => overallStatus = "failed"

\* the lines markTaskAsCompleted is able to flip
FlippableLines(lines) == {i \in 1..Len(lines) : UncheckedMatch(lines[i])}

\* the lines parseTasks reports as tasks with completed = false
IncompleteLines(lines) ==
  {getAllTasks(lines)[k].line :
     k \in {j \in 1..Len(getAllTasks(lines)) : ~getAllTasks(lines)[j].completed}}

\* C40: the parser and markComplete agree on what an incomplete task is: for
\* every document, the set of lines markComplete is able to flip equals the
\* set of lines that parse reports as tasks with completed = false, and the
\* id markComplete derives from such a line equals the id parse assigns to it
\* (including empty brackets, non-numeric or dotted prefixes, and bullets
\* before the first section heading).
C40_ParserAndMarkAgree ==
  /\ FlippableLines(doc) = IncompleteLines(doc)
  /\ \A k \in 1..Len(getAllTasks(doc)) :
       LET t == getAllTasks(doc)[k] IN
       (~t.completed /\ t.line \in FlippableLines(doc)) =>
         TaskIdFromTitle(UncheckedTitle(doc[t.line])) = t.id

\* the run has concluded and every publish that was started has settled
Converged == pc = "concluded" /\ inflight = {}

\* C38: with periodic publishing enabled, the external report converges to
\* the final state: once the run has concluded and every started publish has
\* settled, the body held by the external target is the one rendered with the
\* final overall status; a publish started by the timer while the status was
\* still running can never land after, and overwrite, the final report.
C38_ReportConverges ==
  Converged =>
    /\ held = generateCommentBody(tasks, overallStatus)
    /\ held.overallStatus # "running"

====
